---- MODULE Spec2Model ----
(***************************************************************************)
(* Fault-tolerant execution and retry subsystem of lib/risk:               *)
(*   CircuitBreaker (health gate), AtomicExecutor (step sequencer),        *)
(*   RetryQueue (backoff worker pool) and the failed-transaction ledger.   *)
(* JavaScript runs one synchronous segment at a time; every action below   *)
(* is one such segment, from one await (or call) to the next.              *)
(***************************************************************************)
EXTENDS Integers, Sequences, FiniteSets, TLC

\* ------------------------------------------------------------------ bounds
MaxTime == 3        \* Date.now() ranges over 1..MaxTime
MaxFailCount == 4   \* cap on consecutiveFailures in the guards
MaxSteps == 3       \* steps of one executeSequence call
MaxTasks == 2       \* RetryTasks ever enqueued
MaxLoops == 2       \* worker loops ever spawned by start()
MaxBudget == 4      \* largest maxAttempts of the task of the retry scenario
MaxLedger == 3      \* lines ever appended to the failed-transaction file
MaxRequests == 2    \* txRequests of one preTradeCheck call
MaxCalls == 3       \* recordLoop and evaluate calls on the ProfitManager
MaxStamp == 4       \* timestamps passed to the ProfitManager range over 0..MaxStamp
MaxTrades == 2      \* executeSequence calls of the ledger scenario

VARIABLES
  now,                    \* Date.now()
  maxConsecutiveFailures, \* CircuitBreaker.maxConsecutiveFailures
  coolOffMs,              \* CircuitBreaker.coolOffMs
  state,                  \* CircuitBreaker.state
  firstTrip,              \* ghost: the trip() call that halted the breaker
  lateTrip,               \* ghost: the last trip() call that found it halted
  drv,                    \* ghost: the last call of the breaker driver
  conf,                   \* constructor options of RetryQueue / AtomicExecutor,
                          \* and the behaviour of the injected provider and store
                          \* (file: the store is the FileFailedTxStore over
                          \* `ledger`; otherwise a double that keeps nothing)
  running,                \* RetryQueue._running
  queue,                  \* RetryQueue._queue: the tasks, by identity
  tasks,                  \* every RetryTask object created, by identity
  workers,                \* every _workerLoop started: where it is suspended
  exec,                   \* the executeSequence call: where it is suspended
  ledger,                 \* the failed-transaction file: its lines, in order
  gate,                   \* ghost: the last call of a validation gate or of
                          \* the ledger
  risk,                   \* the preTradeCheck call: where it is suspended
  pm                      \* the ProfitManager

breakerVars == <<state, firstTrip, lateTrip>>
confVars == <<maxConsecutiveFailures, coolOffMs, conf>>
queueVars == <<running, queue, tasks, workers>>
gateVars == <<ledger, gate, risk, pm>>
vars == <<now, confVars, breakerVars, drv, queueVars, exec, gateVars>>

\* ------------------------------------------------------------------ values
NullTime == 0 - 1                 \* trippedAt: null
NullReason == "null"              \* reason: null
\* the data object handed to trip(): who tripped and about what
D(tradeId, scope, info) == [tradeId |-> tradeId, scope |-> scope, info |-> info]
NullData == D(0 - 1, "null", 0 - 1)
NoTrade == 0
\* an option or a key the caller left out: a value no amount of the model takes
Undefined == 0 - 1000000

\* the transaction handle the provider returns for send i of a trade
TxHash(tradeId, i) == tradeId * 10 + i

\* JavaScript truthiness of a timestamp: null and 0 are falsy
Truthy(t) == t # NullTime /\ t # 0

\* ---------------------------------------------------------- CircuitBreaker
InitialState ==
  [halted |-> FALSE, trippedAt |-> NullTime, reason |-> NullReason,
   data |-> NullData, consecutiveFailures |-> 0]

\* variant: the reset keeps the reason and the data of the trip
reset_KeepsReason(s) == [InitialState EXCEPT !.reason = s.reason, !.data = s.data]

reset(s) == InitialState

\* no validation gate called yet
NoGate ==
  [op |-> "none", code |-> "none", pre |-> InitialState, post |-> InitialState,
   in |-> <<>>, out |-> <<>>]

isHalted_LateReset(s) ==
  IF ~s.halted THEN [ret |-> FALSE, st |-> s]
  ELSE IF coolOffMs > 0 /\ Truthy(s.trippedAt) /\ now - s.trippedAt > coolOffMs
       THEN [ret |-> FALSE, st |-> reset(s)]
       ELSE [ret |-> TRUE, st |-> s]

\* isHalted(): the answer, and the state it leaves (auto-reset after cool-off)
isHalted(s) ==
  IF ~s.halted THEN [ret |-> FALSE, st |-> s]
  ELSE IF coolOffMs > 0 /\ Truthy(s.trippedAt) /\ now - s.trippedAt >= coolOffMs
       THEN [ret |-> FALSE, st |-> reset(s)]
       ELSE [ret |-> TRUE, st |-> s]

\* ensureHealthy(): threw = CircuitBreakerTrippedError{reason, data} raised
ensureHealthy(s) ==
  LET r == isHalted(s) IN
  [threw |-> r.ret,
   reason |-> IF r.ret THEN r.st.reason ELSE NullReason,
   data |-> IF r.ret THEN r.st.data ELSE NullData,
   st |-> r.st]

trip_Overwrite(s, reason, data) ==
  [s EXCEPT !.halted = TRUE, !.trippedAt = now, !.reason = reason, !.data = data]

trip_NoTimestamp(s, reason, data) ==
  IF ~s.halted
  THEN [s EXCEPT !.halted = TRUE, !.reason = reason, !.data = data]
  ELSE s

trip(s, reason, data) ==
  IF ~s.halted
  THEN [s EXCEPT !.halted = TRUE, !.trippedAt = now, !.reason = reason, !.data = data]
  ELSE s

\* variant: a success also lifts the halt
recordSuccess_Unhalts(s) == [s EXCEPT !.consecutiveFailures = 0, !.halted = FALSE]

recordSuccess(s) == [s EXCEPT !.consecutiveFailures = 0]

recordFailure_OffByOne(s, scope) ==
  LET s1 == [s EXCEPT !.consecutiveFailures = @ + 1] IN
  IF maxConsecutiveFailures > 0 /\ s1.consecutiveFailures > maxConsecutiveFailures
  THEN trip(s1, "too_many_consecutive_failures", D(NoTrade, scope, s1.consecutiveFailures))
  ELSE s1

recordFailure(s, scope) ==
  LET s1 == [s EXCEPT !.consecutiveFailures = @ + 1] IN
  IF maxConsecutiveFailures > 0 /\ s1.consecutiveFailures >= maxConsecutiveFailures
  THEN trip(s1, "too_many_consecutive_failures", D(NoTrade, scope, s1.consecutiveFailures))
  ELSE s1

\* ghost: the arguments and time of the trip() that halted the breaker
\* (firstTrip), and the reason of the last trip() that found it already halted
\* (lateTrip); the reason tells the caller
TripCall(reason, data) == [reason |-> reason, data |-> data, at |-> now]
NoTrip == [reason |-> NullReason, data |-> NullData, at |-> NullTime]
NoLate == NullReason

\* The objects one synchronous segment reads and writes, as one value q; an
\* action computes the segment's effect on q and commits it.
World ==
  [state |-> state, firstTrip |-> firstTrip, lateTrip |-> lateTrip,
   running |-> running, queue |-> queue, tasks |-> tasks, workers |-> workers,
   ledger |-> ledger]

Commit(q) ==
  /\ state' = q.state
  /\ firstTrip' = q.firstTrip
  /\ lateTrip' = q.lateTrip
  /\ running' = q.running
  /\ queue' = q.queue
  /\ tasks' = q.tasks
  /\ workers' = q.workers
  /\ ledger' = q.ledger

\* q after circuitBreaker.trip(reason, data)
Trip(q, reason, data) ==
  [q EXCEPT !.state = trip(q.state, reason, data),
            !.firstTrip = IF q.state.halted THEN @ ELSE TripCall(reason, data),
            !.lateTrip = IF q.state.halted THEN reason ELSE NoLate]

\* q after recordFailure(scope) left the state `new`
RecordedFailure(q, new, scope) ==
  [q EXCEPT !.state = new,
            !.firstTrip = IF q.state.halted \/ ~new.halted THEN @
                          ELSE TripCall("too_many_consecutive_failures",
                                        D(NoTrade, scope, q.state.consecutiveFailures + 1)),
            !.lateTrip = IF q.state.halted /\ new.consecutiveFailures >= maxConsecutiveFailures
                            /\ maxConsecutiveFailures > 0
                         THEN "too_many_consecutive_failures"
                         ELSE IF new.halted THEN @ ELSE NoLate]

\* q after a breaker method other than trip() left the state `new`
Breaker(q, new) ==
  [q EXCEPT !.state = new,
            !.firstTrip = IF new.halted THEN @ ELSE NoTrip,
            !.lateTrip = IF new.halted THEN @ ELSE NoLate]

\* the breaker refuses work at this instant (halted and cool-off not elapsed);
\* this only looks, it does not auto-reset
HaltedIn(s) == isHalted(s).ret
Halted == HaltedIn(state)

\* ------------------------------------------------------------------- utils
Min(a, b) == IF a < b THEN a ELSE b
Max(a, b) == IF a > b THEN a ELSE b

\* clampInt(n, min, max); n is an integer here, so Math.trunc changes nothing
clampInt(n, lo, hi) == Max(lo, Min(hi, n))

RECURSIVE Pow2(_)
Pow2(n) == IF n <= 0 THEN 1 ELSE 2 * Pow2(n - 1)

\* ------------------------------------------------------- FileFailedTxStore
\* crypto.randomBytes(16).toString('hex'): 128 random bits, taken never to
\* repeat a value already in the file
IdSpace == 1 .. MaxLedger
LedgerIds == {ledger[i].id : i \in 1 .. Len(ledger)}
randomId == IdSpace \ LedgerIds

\* an `error` key left out or undefined
NoError == "undefined"

\* record(event) on the file `file`: `id: event.id || randomId()`, `ts`, then
\* `...event`, whose own keys win; the line is appended unless the append
\* throws
record(file, event, rid, led) ==
  LET entry == event @@ [id |-> rid, ts |-> now] IN
  IF led = "fail" THEN [threw |-> TRUE, entry |-> entry, file |-> file]
  ELSE [threw |-> FALSE, entry |-> entry, file |-> Append(file, entry)]

\* recordFailure({tradeId, scope, error, retryable, attempt, maxAttempts})
storeRecordFailure(file, tradeId, scope, error, retryable, attempt, maxAttempts, rid, led) ==
  record(file,
         [kind |-> "failure", tradeId |-> tradeId, scope |-> scope,
          txHash |-> Undefined, retryable |-> retryable, attempt |-> attempt,
          maxAttempts |-> maxAttempts, error |-> error], rid, led)

\* variant: the attempt is filed under the id of the failure it retries
recordRetryAttempt_ReusesId(file, failedTxId, tradeId, scope, attempt, txHash, error, rid, led) ==
  record(file,
         [id |-> failedTxId, kind |-> "retry_attempt", failedTxId |-> failedTxId,
          tradeId |-> tradeId, scope |-> scope, attempt |-> attempt,
          txHash |-> txHash, error |-> error], rid, led)

\* variant: the attempt is filed under the trade's id instead of the failure's
recordRetryAttempt_ByTrade(file, failedTxId, tradeId, scope, attempt, txHash, error, rid, led) ==
  record(file,
         [kind |-> "retry_attempt", failedTxId |-> tradeId,
          tradeId |-> tradeId, scope |-> scope, attempt |-> attempt,
          txHash |-> txHash, error |-> error], rid, led)

\* recordRetryAttempt({failedTxId, tradeId, scope, attempt, txHash, error})
recordRetryAttempt(file, failedTxId, tradeId, scope, attempt, txHash, error, rid, led) ==
  record(file,
         [kind |-> "retry_attempt", failedTxId |-> failedTxId,
          tradeId |-> tradeId, scope |-> scope, attempt |-> attempt,
          txHash |-> txHash, error |-> error], rid, led)

\* the world after the store call r returned: its line is in the ledger when
\* the store is the FileFailedTxStore
Kept(q, r) == IF conf.file THEN [q EXCEPT !.ledger = r.file] ELSE q

\* variant: the executor hands the queue no ledger id
EntryId_None(r) == Undefined

\* failureEntry?.id: a double hands back no entry
EntryId(r) == IF conf.file THEN r.entry.id ELSE Undefined

\* the ids randomId() can return to a call made now
FreshIds == IF conf.file THEN randomId ELSE {Undefined}

\* -------------------------------------------------------------- RetryQueue
AttemptClampMax == 1000
MaxAttemptsCap == 50
ConcurrencyCap == 25
DefaultMaxAttempts == 3

\* Math.floor(Math.random() * jitterMs)
JitterDraws == IF conf.jitterMs > 0 THEN 0 .. (conf.jitterMs - 1) ELSE {0}

\* variant: the exponent's sign is flipped, the delay halves with each attempt
computeDelayMs_Halving(attempt, rnd) ==
  LET a == clampInt(attempt, 1, AttemptClampMax)
      exp == Min(conf.maxDelayMs, conf.baseDelayMs \div Pow2(a - 1))
      jitter == IF conf.jitterMs # 0 THEN rnd ELSE 0
  IN exp + jitter

\* Math.min(cap, base * Math.pow(2, k)); the code's double holds 2^999, so
\* the product is doubled only as long as it stays under the cap
RECURSIVE MinOfDoubled(_, _, _)
MinOfDoubled(cap, base, k) ==
  IF k <= 0 \/ base >= cap \/ base = 0 THEN Min(cap, base)
  ELSE MinOfDoubled(cap, 2 * base, k - 1)

computeDelayMs(attempt, rnd) ==
  LET a == clampInt(attempt, 1, AttemptClampMax)
      exp == MinOfDoubled(conf.maxDelayMs, conf.baseDelayMs, a - 1)
      jitter == IF conf.jitterMs # 0 THEN rnd ELSE 0
  IN exp + jitter

\* provider.sendTransaction / failedTxStore append: what the injected object
\* can answer
SendOutcomes == IF conf.provider = "alwaysFail" THEN {"fail"} ELSE {"ok", "fail"}
StoreOutcomes == IF conf.store = "faulty" THEN {"ok", "fail"} ELSE {"ok"}

\* variant: maxAttempts is stored as requested
NewTask_Unclamped(tradeId, scope, maxAttempts, failedTxId) ==
  [failedTxId |-> failedTxId, tradeId |-> tradeId, scope |-> scope,
   maxAttempts |-> IF maxAttempts = Undefined THEN DefaultMaxAttempts ELSE maxAttempts,
   attempt |-> 0, requested |-> maxAttempts,
   sends |-> 0, okSends |-> 0, slept |-> 0, outcome |-> "pending"]

\* a RetryTask object; requested, sends, okSends, slept and outcome are ghost
\* fields: the maxAttempts the caller asked for, the sendTransaction calls made
\* for it, those that returned a handle, the last backoff slept, how it ended
NewTask(tradeId, scope, maxAttempts, failedTxId) ==
  [failedTxId |-> failedTxId, tradeId |-> tradeId, scope |-> scope,
   maxAttempts |-> clampInt(IF maxAttempts = Undefined THEN DefaultMaxAttempts
                            ELSE maxAttempts, 1, MaxAttemptsCap),
   attempt |-> 0, requested |-> maxAttempts,
   sends |-> 0, okSends |-> 0, slept |-> 0, outcome |-> "pending"]

\* variant: the step after the failed one is queued along with it
enqueue_WithNext(q, tradeId, scope, maxAttempts, failedTxId) ==
  [q EXCEPT !.tasks = @ \o <<NewTask(tradeId, scope, maxAttempts, failedTxId),
                             NewTask(tradeId, "next_step", maxAttempts, failedTxId)>>,
            !.queue = @ \o <<Len(q.tasks) + 1, Len(q.tasks) + 2>>]

enqueue(q, tradeId, scope, maxAttempts, failedTxId) ==
  [q EXCEPT !.tasks = Append(@, NewTask(tradeId, scope, maxAttempts, failedTxId)),
            !.queue = Append(@, Len(q.tasks) + 1)]

shift_Peek(qu) == [task |-> Head(qu), rest |-> qu]

\* this._queue.shift() on a non-empty queue
shift(qu) == [task |-> Head(qu), rest |-> Tail(qu)]

\* a _workerLoop(id): pc is where it is suspended ("idle": in sleep(250) or
\* sleep(100); "backoff": in sleep(delayMs); "sending": in sendTransaction),
\* task the RetryTask it holds (0: none), delay the backoff it sleeps, gate
\* (ghost) whether the breaker was halted when it called sendTransaction
NewWorker(id) == [id |-> id, pc |-> "idle", task |-> 0, delay |-> 0, gate |-> FALSE]

\* the call provider.sendTransaction(task.txRequest) by worker w for task t
SendCall(q, w, t) ==
  [q EXCEPT !.tasks[t].sends = @ + 1,
            !.workers[w].pc = "sending",
            !.workers[w].task = t,
            !.workers[w].gate = HaltedIn(q.state)]

\* variant: the loop is `while (true)`, it never looks at _running
Iterate_IgnoresStop(q, w, rnd) ==
  LET h == isHalted(q.state)
      q1 == [Breaker(q, h.st) EXCEPT
               !.workers[w] = [@ EXCEPT !.pc = "idle", !.task = 0, !.delay = 0,
                                        !.gate = FALSE]]
  IN
  IF h.ret THEN q1
  ELSE IF q1.queue = <<>> THEN q1
  ELSE
    LET sh == shift(q1.queue)
        t == sh.task
        a == q1.tasks[t].attempt + 1
        delayMs == computeDelayMs(a, rnd)
        q2 == [q1 EXCEPT !.queue = sh.rest, !.tasks[t].attempt = a]
    IN
    IF a > 1
    THEN [q2 EXCEPT !.workers[w] =
            [@ EXCEPT !.pc = "backoff", !.task = t, !.delay = delayMs]]
    ELSE SendCall(q2, w, t)

\* one pass of the while loop from its head to the next await
Iterate(q, w, rnd) ==
  IF ~q.running
  THEN [q EXCEPT !.workers[w] = [@ EXCEPT !.pc = "exited", !.task = 0, !.delay = 0, !.gate = FALSE]]
  ELSE
    LET h == isHalted(q.state)
        q1 == [Breaker(q, h.st) EXCEPT
                 !.workers[w] = [@ EXCEPT !.pc = "idle", !.task = 0, !.delay = 0,
                                          !.gate = FALSE]]
    IN
    IF h.ret THEN q1
    ELSE IF q1.queue = <<>> THEN q1
    ELSE
      LET sh == shift(q1.queue)
          t == sh.task
          a == q1.tasks[t].attempt + 1
          delayMs == computeDelayMs(a, rnd)
          q2 == [q1 EXCEPT !.queue = sh.rest, !.tasks[t].attempt = a]
      IN
      IF a > 1
      THEN [q2 EXCEPT !.workers[w] =
              [@ EXCEPT !.pc = "backoff", !.task = t, !.delay = delayMs]]
      ELSE SendCall(q2, w, t)

RECURSIVE StartLoops(_, _, _)
StartLoops(q, i, rnds) ==
  IF i > clampInt(conf.concurrency, 1, ConcurrencyCap) THEN q
  ELSE LET q0 == [q EXCEPT !.workers = Append(@, NewWorker(i - 1))]
       IN StartLoops(Iterate(q0, Len(q0.workers), rnds[i]), i + 1, rnds)

\* start(): every new loop runs to its first await inside the call
start ==
  /\ ~running
  /\ Len(workers) + clampInt(conf.concurrency, 1, ConcurrencyCap) <= MaxLoops
  /\ \E rnds \in [1 .. clampInt(conf.concurrency, 1, ConcurrencyCap) -> JitterDraws] :
       Commit(StartLoops([World EXCEPT !.running = TRUE], 1, rnds))
  /\ UNCHANGED <<now, confVars, gate, risk, pm, drv, exec>>

stop ==
  /\ running
  /\ running' = FALSE
  /\ UNCHANGED <<now, confVars, gateVars, breakerVars, drv, queue, tasks, workers, exec>>

\* sleep(250) or sleep(100) is over
WorkerWake(w) ==
  /\ workers[w].pc = "idle"
  /\ \E rnd \in JitterDraws : Commit(Iterate(World, w, rnd))
  /\ UNCHANGED <<now, confVars, gate, risk, pm, drv, exec>>

\* sleep(delayMs) is over: the send follows with no further look at the breaker
WorkerBackoffDone(w) ==
  /\ workers[w].pc = "backoff"
  /\ LET t == workers[w].task
         q1 == [World EXCEPT !.tasks[t].slept = workers[w].delay]
     IN Commit(SendCall(q1, w, t))
  /\ UNCHANGED <<now, confVars, gate, risk, pm, drv, exec>>

\* variant: the rejection of one loop ends every loop
Crashed_TakesDownAll(q, w) ==
  Trip([q EXCEPT !.workers =
          [v \in 1 .. Len(q.workers) |->
             [q.workers[v] EXCEPT !.pc = "crashed", !.task = 0, !.delay = 0,
                                  !.gate = FALSE]]],
       "retry_worker_crash", D(NoTrade, "worker", q.workers[w].id))

\* the promise of _workerLoop rejected: start()'s catch handler
Crashed(q, w) ==
  Trip([q EXCEPT !.workers[w] =
          [@ EXCEPT !.pc = "crashed", !.task = 0, !.delay = 0, !.gate = FALSE]],
       "retry_worker_crash", D(NoTrade, "worker", q.workers[w].id))

\* variant: the budget test is `task.attempt > task.maxAttempts`
AttemptFailed_OneMore(q, w, err, led, rnd, rid) ==
  LET t == q.workers[w].task
      task == q.tasks[t]
      r == recordRetryAttempt(q.ledger, task.failedTxId, task.tradeId, task.scope,
                              task.attempt, Undefined, err, rid, led)
      q1 == Kept(q, r)
  IN
  IF r.threw THEN Crashed(q, w)
  ELSE IF task.attempt > task.maxAttempts
  THEN Iterate(Trip([q1 EXCEPT !.tasks[t].outcome = "exhausted"],
                    "retry_exhausted", D(task.tradeId, task.scope, task.attempt)),
               w, rnd)
  ELSE Iterate([q1 EXCEPT !.queue = Append(@, t)], w, rnd)

\* variant: a task that failed with attempts left is not pushed back
AttemptFailed_DropsTask(q, w, err, led, rnd, rid) ==
  LET t == q.workers[w].task
      task == q.tasks[t]
      r == recordRetryAttempt(q.ledger, task.failedTxId, task.tradeId, task.scope,
                              task.attempt, Undefined, err, rid, led)
      q1 == Kept(q, r)
  IN
  IF r.threw THEN Crashed(q, w)
  ELSE IF task.attempt >= task.maxAttempts
  THEN Iterate(Trip([q1 EXCEPT !.tasks[t].outcome = "exhausted"],
                    "retry_exhausted", D(task.tradeId, task.scope, task.attempt)),
               w, rnd)
  ELSE Iterate(q1, w, rnd)

\* the catch block of the attempt: err the error caught, led the outcome of
\* its recordRetryAttempt
AttemptFailed(q, w, err, led, rnd, rid) ==
  LET t == q.workers[w].task
      task == q.tasks[t]
      r == recordRetryAttempt(q.ledger, task.failedTxId, task.tradeId, task.scope,
                              task.attempt, Undefined, err, rid, led)
      q1 == Kept(q, r)
  IN
  IF r.threw THEN Crashed(q, w)
  ELSE IF task.attempt >= task.maxAttempts
  THEN Iterate(Trip([q1 EXCEPT !.tasks[t].outcome = "exhausted"],
                    "retry_exhausted", D(task.tradeId, task.scope, task.attempt)),
               w, rnd)
  ELSE Iterate([q1 EXCEPT !.queue = Append(@, t)], w, rnd)

\* variant: a task whose send succeeded is pushed back like a failed one
AttemptDone_KeepsTask(q, w, out, led1, led2, rnd, rid) ==
  LET t == q.workers[w].task
      task == q.tasks[t]
      q0 == [q EXCEPT !.tasks[t].okSends = @ + 1]
      r == recordRetryAttempt(q.ledger, task.failedTxId, task.tradeId, task.scope,
                              task.attempt, TxHash(task.tradeId, task.attempt),
                              NoError, rid, led1)
  IN
  IF out = "ok"
  THEN IF ~r.threw
       THEN Iterate([Kept(q0, r) EXCEPT !.queue = Append(@, t)], w, rnd)
       ELSE AttemptFailed(q0, w, "StoreError", led2, rnd, rid)
  ELSE AttemptFailed(q, w, "send_error", led1, rnd, rid)

\* sendTransaction settled: out is its outcome, led1 the outcome of the ledger
\* append that follows, led2 that of the append in the catch block
AttemptDone(q, w, out, led1, led2, rnd, rid) ==
  LET t == q.workers[w].task
      task == q.tasks[t]
      q0 == [q EXCEPT !.tasks[t].okSends = @ + 1]
      r == recordRetryAttempt(q.ledger, task.failedTxId, task.tradeId, task.scope,
                              task.attempt, TxHash(task.tradeId, task.attempt),
                              NoError, rid, led1)
  IN
  IF out = "ok"
  THEN IF ~r.threw
       THEN Iterate([Kept(q0, r) EXCEPT !.tasks[t].outcome = "succeeded"], w, rnd)
       ELSE AttemptFailed(q0, w, "StoreError", led2, rnd, rid)
  ELSE AttemptFailed(q, w, "send_error", led1, rnd, rid)

WorkerSendDone(w) ==
  /\ workers[w].pc = "sending"
  /\ \E out \in SendOutcomes, led1 \in StoreOutcomes, led2 \in StoreOutcomes,
        rnd \in JitterDraws, rid \in FreshIds :
       LET q == AttemptDone(World, w, out, led1, led2, rnd, rid) IN
       /\ Len(q.ledger) <= MaxLedger
       /\ Commit(q)
  /\ UNCHANGED <<now, confVars, gate, risk, pm, drv, exec>>

\* ---------------------------------------------------------- AtomicExecutor
TradeIds == {1}
RawScopes == {"", "swap"}          \* "": the step has no scope, or an empty one
RawMaxAttempts == {Undefined}
EnqueueMaxAttempts == {0, 2}
RecoveryKinds == {"none", "ok", "throws"}
ReceiptOutcomes == {"success", "failed", "missing", "throws"}

\* a TransactionStep as the caller wrote it
Steps == [scope : RawScopes, retryable : BOOLEAN, maxAttempts : RawMaxAttempts]

\* const scope = step.scope || 'unknown_step'
Scope(step) == IF step.scope = "" THEN "unknown_step" ELSE step.scope

\* The executeSequence call under study (the executor keeps nothing from one
\* call to the next; what earlier calls left in the breaker and the queue is
\* the environment's doing). pc: "idle" (not called), "send" / "receipt" /
\* "recovery" (suspended in that await), "returned", "threw". n: the length of
\* steps; steps: the steps the loop has read so far (the list is immutable, its
\* elements are drawn when the loop reaches them); i: the step in hand;
\* ok, failedScope, error, completed: the SequenceResult. Ghost: sent, the
\* sendTransaction calls made by this call; failedAt, the step that failed;
\* gate, whether the breaker was halted at the last sendTransaction call.
IdleExec ==
  [pc |-> "idle", tradeId |-> 0, n |-> 0, steps |-> <<>>, recovery |-> "none",
   i |-> 0, completed |-> <<>>, ok |-> FALSE, failedScope |-> "null",
   error |-> "null", sent |-> 0, failedAt |-> 0, gate |-> FALSE]

\* the catch block of a step: err the error caught, led the ledger append
\* variant: a retryable failure is enqueued and trips the breaker as well
StepFailed_TripsToo(q, e, err, led, rid) ==
  LET step == e.steps[e.i]
      scope == Scope(step)
      maxAttempts == IF step.maxAttempts = Undefined THEN DefaultMaxAttempts
                     ELSE step.maxAttempts
      r == storeRecordFailure(q.ledger, e.tradeId, scope, err, step.retryable, 0,
                              maxAttempts, rid, led)
      q0 == Trip(IF conf.execStore THEN Kept(q, r) ELSE q,
                 "atomic_execution_failed", D(e.tradeId, scope, 0))
      q1 == IF step.retryable /\ conf.execQueue
            THEN enqueue(q0, e.tradeId, scope, maxAttempts,
                         IF conf.execStore THEN EntryId(r) ELSE Undefined)
            ELSE q0
      e1 == [e EXCEPT !.failedScope = scope, !.error = err, !.failedAt = e.i]
  IN
  IF conf.execStore /\ r.threw
  THEN [q |-> q, e |-> [e EXCEPT !.pc = "threw", !.error = "StoreError"]]
  ELSE IF e.recovery # "none"
  THEN [q |-> q1, e |-> [e1 EXCEPT !.pc = "recovery"]]
  ELSE [q |-> q1, e |-> [e1 EXCEPT !.pc = "returned", !.ok = FALSE]]

StepFailed(q, e, err, led, rid) ==
  LET step == e.steps[e.i]
      scope == Scope(step)
      maxAttempts == IF step.maxAttempts = Undefined THEN DefaultMaxAttempts
                     ELSE step.maxAttempts
      r == storeRecordFailure(q.ledger, e.tradeId, scope, err, step.retryable, 0,
                              maxAttempts, rid, led)
      q0 == IF conf.execStore THEN Kept(q, r) ELSE q
  IN
  IF conf.execStore /\ r.threw
  THEN [q |-> q, e |-> [e EXCEPT !.pc = "threw", !.error = "StoreError"]]
  ELSE
    LET q1 == IF step.retryable /\ conf.execQueue
              THEN enqueue(q0, e.tradeId, scope, maxAttempts,
                           IF conf.execStore THEN EntryId(r) ELSE Undefined)
              ELSE Trip(q0, "atomic_execution_failed", D(e.tradeId, scope, 0))
        e1 == [e EXCEPT !.failedScope = scope, !.error = err, !.failedAt = e.i]
    IN
    IF e.recovery # "none"
    THEN [q |-> q1, e |-> [e1 EXCEPT !.pc = "recovery"]]
    ELSE [q |-> q1, e |-> [e1 EXCEPT !.pc = "returned", !.ok = FALSE]]

\* variant: the step is sent without consulting the breaker
BeginStep_NoHealthCheck(q, e, step, led, rid) ==
  [q |-> q,
   e |-> [e EXCEPT !.i = @ + 1, !.steps = Append(@, step), !.pc = "send",
                   !.sent = @ + 1, !.gate = HaltedIn(q.state)]]

\* the loop body up to `await sendTransaction`, for the next step
BeginStep(q, e, step, led, rid) ==
  LET e1 == [e EXCEPT !.i = @ + 1, !.steps = Append(@, step)]
      r == ensureHealthy(q.state)
      q1 == Breaker(q, r.st)
  IN
  IF r.threw
  THEN StepFailed(q1, e1, "CircuitBreakerTrippedError", led, rid)
  ELSE [q |-> q1,
        e |-> [e1 EXCEPT !.pc = "send", !.sent = @ + 1, !.gate = HaltedIn(q1.state)]]

\* executeSequence({tradeId, steps, recovery}) up to its first await
Called(q, tradeId, n, recovery, step, led, rid) ==
  LET e0 == [IdleExec EXCEPT !.tradeId = tradeId, !.n = n, !.recovery = recovery]
      r == ensureHealthy(q.state)
      q1 == Breaker(q, r.st)
  IN
  IF r.threw
  THEN [q |-> q1, e |-> [e0 EXCEPT !.pc = "threw", !.error = "CircuitBreakerTrippedError"]]
  ELSE IF n = 0
  THEN [q |-> q1, e |-> [e0 EXCEPT !.pc = "threw", !.error = "MISSING_STEPS"]]
  ELSE BeginStep(q1, e0, step, led, rid)

Done(res) ==
  /\ Len(res.q.tasks) <= MaxTasks
  /\ Len(res.q.ledger) <= MaxLedger
  /\ Commit(res.q)
  /\ exec' = res.e
  /\ UNCHANGED <<now, confVars, gate, risk, pm, drv>>

Call_executeSequence ==
  /\ exec.pc = "idle"
  /\ \E tradeId \in TradeIds, n \in 0 .. MaxSteps, recovery \in RecoveryKinds,
        step \in Steps, led \in StoreOutcomes, rid \in FreshIds :
       Done(Called(World, tradeId, n, recovery, step, led, rid))

\* swap steps that leave maxAttempts out or ask for two attempts
BudgetedSteps ==
  [scope : {"swap"}, retryable : BOOLEAN, maxAttempts : {Undefined, 2}]

\* a caller that executes its trades one after the other, each of one or two
\* steps and without a recover callback, numbering them 1, 2, ...
Call_executeTrade ==
  /\ exec.pc \in {"idle", "returned", "threw"}
  /\ exec.tradeId < MaxTrades
  /\ \E n \in 1 .. 2, recovery \in {"none"}, step \in BudgetedSteps,
        led \in StoreOutcomes, rid \in FreshIds :
       Done(Called(World, exec.tradeId + 1, n, recovery, step, led, rid))

\* variant: the next step is sent as soon as this one is handed over, with its
\* receipt still awaited
SendSettled_Pipelined(q, e, out, led, rid) ==
  IF out = "ok"
  THEN IF e.i < e.n THEN BeginStep(q, e, e.steps[e.i], led, rid)
       ELSE [q |-> q, e |-> [e EXCEPT !.pc = "receipt"]]
  ELSE StepFailed(q, e, "send_error", led, rid)

\* sendTransaction settled
SendSettled(q, e, out, led, rid) ==
  IF out = "ok"
  THEN [q |-> q, e |-> [e EXCEPT !.pc = "receipt"]]
  ELSE StepFailed(q, e, "send_error", led, rid)

ExecSendDone ==
  /\ exec.pc = "send"
  /\ \E out \in SendOutcomes, led \in StoreOutcomes, rid \in FreshIds :
       Done(SendSettled(World, exec, out, led, rid))

\* waitForReceipt settled: rc the receipt, or "throws"
\* variant: the step is pushed to completed before its receipt is examined
ReceiptSettled_PushFirst(q, e, rc, step, led, rid) ==
  LET e1 == [e EXCEPT !.completed =
               Append(@, [scope |-> Scope(e.steps[e.i]),
                          txHash |-> TxHash(e.tradeId, e.i), receipt |-> rc])]
  IN
  IF rc = "throws" THEN StepFailed(q, e, "receipt_error", led, rid)
  ELSE IF rc # "success" THEN StepFailed(q, e1, "RetryableTransactionError", led, rid)
  ELSE IF e.i < e.n THEN BeginStep(q, e1, step, led, rid)
  ELSE [q |-> Breaker(q, recordSuccess(q.state)),
        e |-> [e1 EXCEPT !.pc = "returned", !.ok = TRUE]]

ReceiptSettled(q, e, rc, step, led, rid) ==
  IF rc = "throws" THEN StepFailed(q, e, "receipt_error", led, rid)
  ELSE IF rc # "success" THEN StepFailed(q, e, "RetryableTransactionError", led, rid)
  ELSE
    LET e1 == [e EXCEPT !.completed =
                 Append(@, [scope |-> Scope(e.steps[e.i]),
                            txHash |-> TxHash(e.tradeId, e.i), receipt |-> rc])]
    IN
    IF e.i < e.n THEN BeginStep(q, e1, step, led, rid)
    ELSE [q |-> Breaker(q, recordSuccess(q.state)),
          e |-> [e1 EXCEPT !.pc = "returned", !.ok = TRUE]]

ExecReceiptDone ==
  /\ exec.pc = "receipt"
  /\ \E rc \in ReceiptOutcomes, step \in Steps, led \in StoreOutcomes,
        rid \in FreshIds :
       Done(ReceiptSettled(World, exec, rc, step, led, rid))

\* variant: the error of the recovery replaces the error of the step
RecoverySettled_HidesError(q, e) ==
  [q |-> IF e.recovery = "throws"
         THEN Trip(q, "recovery_failed", D(e.tradeId, e.failedScope, 0))
         ELSE q,
   e |-> [e EXCEPT !.pc = "returned", !.ok = FALSE,
                   !.error = IF e.recovery = "throws" THEN "recovery_error" ELSE @]]

\* recovery({tradeId, failedScope, completed, error}) settled
RecoverySettled(q, e) ==
  [q |-> IF e.recovery = "throws"
         THEN Trip(q, "recovery_failed", D(e.tradeId, e.failedScope, 0))
         ELSE q,
   e |-> [e EXCEPT !.pc = "returned", !.ok = FALSE]]

ExecRecoveryDone ==
  /\ exec.pc = "recovery"
  /\ Done(RecoverySettled(World, exec))

\* ------------------------------------------------------------- environment
\* a validation gate (FeeManager.assertWithinCap) trips the breaker
GateTrip ==
  /\ Commit(Trip(World, "fee_too_high", D(NoTrade, "fee", 0)))
  /\ UNCHANGED <<now, confVars, gate, risk, pm, drv, exec>>

\* a caller other than the executor enqueues a retry
Call_enqueue ==
  /\ Len(tasks) < MaxTasks
  /\ \E tradeId \in TradeIds, scope \in {"swap"}, maxAttempts \in EnqueueMaxAttempts :
       Commit(enqueue(World, tradeId, scope, maxAttempts, Undefined))
  /\ UNCHANGED <<now, confVars, gate, risk, pm, drv, exec>>

IdleConf ==
  [concurrency |-> 1, baseDelayMs |-> 1, maxDelayMs |-> 4, jitterMs |-> 0,
   provider |-> "flaky", store |-> "reliable", execQueue |-> FALSE, execStore |-> FALSE,
   file |-> FALSE]

\* ------------------------------------------------- the ledger driver's calls
\* the call `op` of the store returned or threw
Filed(op, res) ==
  /\ ledger' = res.file
  /\ gate' = [op |-> op, code |-> IF res.threw THEN "append_failed" ELSE "none",
              pre |-> state, post |-> state, in |-> <<>>, out |-> res.entry]
  /\ risk' = risk
  /\ pm' = pm

StoreTrades == {1, 2}
StoreAttempts == {0, 1}

\* the executor files the failure of a step
Call_storeRecordFailure ==
  /\ Len(ledger) < MaxLedger
  /\ \E tradeId \in StoreTrades, rid \in randomId, led \in StoreOutcomes :
       Filed("recordFailure",
             storeRecordFailure(ledger, tradeId, "swap", "send_error", TRUE, 0,
                                DefaultMaxAttempts, rid, led))
  /\ UNCHANGED <<now, confVars, breakerVars, drv, queueVars, exec>>

\* a worker files an attempt, for a task that carries the id of its failure
\* entry or none
Call_storeRecordRetryAttempt ==
  /\ Len(ledger) < MaxLedger
  /\ \E failedTxId \in {Undefined} \cup {ledger[i].id : i \in {j \in 1 .. Len(ledger) : ledger[j].kind = "failure"}},
        tradeId \in StoreTrades, attempt \in StoreAttempts \ {0},
        rid \in randomId, led \in StoreOutcomes :
       Filed("recordRetryAttempt",
             recordRetryAttempt(ledger, failedTxId, tradeId, "swap", attempt,
                                Undefined, "send_error", rid, led))
  /\ UNCHANGED <<now, confVars, breakerVars, drv, queueVars, exec>>

\* -------------------------------------------------------- validation gates
\* BigInt division truncates toward zero
TruncDiv(a, b) == IF a >= 0 THEN a \div b ELSE 0 - ((0 - a) \div b)

\* normalizeBigInt(value): null and undefined count as 0n
normalizeBigInt(value) == IF value = Undefined THEN 0 ELSE value

BpsScale == 10000
DefaultMaxSlippageBps == 50

\* slippage.js
minOutFromExpected(expectedOut, maxSlippageBps) ==
  LET exp == normalizeBigInt(expectedOut)
      bps == Max(0, maxSlippageBps)
  IN TruncDiv(exp * (BpsScale - bps), BpsScale)

slippageBps(expectedOut, actualOut) ==
  LET exp == normalizeBigInt(expectedOut)
      act == normalizeBigInt(actualOut)
  IN IF exp <= 0 THEN 0
     ELSE IF act >= exp THEN 0
     ELSE TruncDiv((exp - act) * BpsScale, exp)

\* the error code the call fails with, "none" when it returns
assertQuoteWithinLimits(expectedAmountOut, quotedMinOut, maxSlippageBps) ==
  LET cap == IF maxSlippageBps = Undefined THEN DefaultMaxSlippageBps ELSE maxSlippageBps
      computedMinOut == minOutFromExpected(expectedAmountOut, cap)
      minOut == normalizeBigInt(quotedMinOut)
  IN IF minOut < computedMinOut THEN "SLIPPAGE_QUOTE_TOO_LOW" ELSE "none"

\* SlippageEnforcer.computeMinOut: {minOut, maxSlippageBps}
computeMinOut(expectedAmountOut, maxSlippageBps) ==
  LET cap == IF maxSlippageBps = Undefined THEN DefaultMaxSlippageBps ELSE maxSlippageBps
  IN [minOut |-> minOutFromExpected(expectedAmountOut, cap), maxSlippageBps |-> cap]

\* variant: an execution exactly at minOut is refused
assertExecutionWithinLimits_Strict(expectedAmountOut, actualAmountOut, maxSlippageBps) ==
  LET cap == IF maxSlippageBps = Undefined THEN DefaultMaxSlippageBps ELSE maxSlippageBps
      minOut == minOutFromExpected(expectedAmountOut, cap)
      actual == normalizeBigInt(actualAmountOut)
  IN IF actual <= minOut THEN "SLIPPAGE_EXCEEDED" ELSE "none"

assertExecutionWithinLimits(expectedAmountOut, actualAmountOut, maxSlippageBps) ==
  LET cap == IF maxSlippageBps = Undefined THEN DefaultMaxSlippageBps ELSE maxSlippageBps
      minOut == minOutFromExpected(expectedAmountOut, cap)
      actual == normalizeBigInt(actualAmountOut)
  IN IF actual < minOut THEN "SLIPPAGE_EXCEEDED" ELSE "none"

\* capitalSafety.js: validate({balances, trade, estimatedFee}) of a validator
\* constructed with cfg; a trade that names its assetIn names the asset "IN",
\* the fee asset is "FEE"
readBalance(balances, asset) == normalizeBigInt(balances[asset])

\* variant: the fraction of the free balance is not applied
validate_NoFractionCap(cfg, balances, trade, estimatedFee) ==
  LET amountIn == normalizeBigInt(trade.amountIn)
      balIn == readBalance(balances, "IN")
      reserveIn == normalizeBigInt(cfg.minReserve["IN"])
      freeIn == IF balIn > reserveIn THEN balIn - reserveIn ELSE 0
      capByAbsolute == IF cfg.maxTradeAmount # Undefined
                       THEN normalizeBigInt(cfg.maxTradeAmount) ELSE freeIn
      maxAllowedIn == IF freeIn < capByAbsolute THEN freeIn ELSE capByAbsolute
  IN
  IF ~trade.present THEN "MISSING_TRADE"
  ELSE IF amountIn <= 0 THEN "INVALID_TRADE_AMOUNT"
  ELSE IF trade.assetIn = Undefined THEN "MISSING_ASSET_IN"
  ELSE IF amountIn > maxAllowedIn THEN "TRADE_AMOUNT_EXCEEDS_LIMITS"
  ELSE "none"

validate(cfg, balances, trade, estimatedFee) ==
  LET amountIn == normalizeBigInt(trade.amountIn)
      balIn == readBalance(balances, "IN")
      reserveIn == normalizeBigInt(cfg.minReserve["IN"])
      freeIn == IF balIn > reserveIn THEN balIn - reserveIn ELSE 0
      capByFraction == IF cfg.maxTradeFractionBps > 0
                       THEN TruncDiv(freeIn * cfg.maxTradeFractionBps, BpsScale)
                       ELSE freeIn
      capByAbsolute == IF cfg.maxTradeAmount # Undefined
                       THEN normalizeBigInt(cfg.maxTradeAmount) ELSE freeIn
      maxAllowedIn == IF capByFraction < capByAbsolute THEN capByFraction
                      ELSE capByAbsolute
      feeTotal == normalizeBigInt(estimatedFee) + cfg.feeBuffer
      feeBal == readBalance(balances, "FEE")
      reserveFee == normalizeBigInt(cfg.minReserve["FEE"])
      freeFee == IF feeBal > reserveFee THEN feeBal - reserveFee ELSE 0
  IN
  IF ~trade.present THEN "MISSING_TRADE"
  ELSE IF amountIn <= 0 THEN "INVALID_TRADE_AMOUNT"
  ELSE IF trade.assetIn = Undefined THEN "MISSING_ASSET_IN"
  ELSE IF amountIn > maxAllowedIn THEN "TRADE_AMOUNT_EXCEEDS_LIMITS"
  ELSE IF amountIn > freeIn THEN "INSUFFICIENT_FREE_BALANCE"
  ELSE IF cfg.feeAsset /\ feeTotal > freeFee THEN "INSUFFICIENT_FEE_BALANCE"
  ELSE "none"

\* BalanceReconciler: absDiff, and the assets reconcile reports
absDiff(a, b) ==
  LET x == normalizeBigInt(a)
      y == normalizeBigInt(b)
  IN IF x >= y THEN x - y ELSE y - x

Assets == {"ETH", "USDC"}

\* variant: a difference equal to the tolerance counts as a mismatch
mismatchesOf_AtTolerance(tolerance, expected, actual) ==
  {asset \in {a \in Assets : expected[a] # Undefined \/ actual[a] # Undefined} :
     absDiff(normalizeBigInt(expected[asset]), normalizeBigInt(actual[asset]))
        >= normalizeBigInt(tolerance[asset])}

\* the loop over new Set([...keys(expected), ...keys(actual)])
mismatchesOf(tolerance, expected, actual) ==
  {asset \in {a \in Assets : expected[a] # Undefined \/ actual[a] # Undefined} :
     absDiff(normalizeBigInt(expected[asset]), normalizeBigInt(actual[asset]))
        > normalizeBigInt(tolerance[asset])}

\* the gate call `op` on input `in` failed with `code` ("none": it returned)
\* and left the world q
Gated(op, in, code, out, q) ==
  /\ Commit(q)
  /\ gate' = [op |-> op, code |-> code, pre |-> state, post |-> q.state,
              in |-> in, out |-> out]
  /\ risk' = risk
  /\ pm' = pm

SlipExpected == {0, 1000}
SlipAmounts == {Undefined, 0, 994, 995, 1000}
SlipCaps == {Undefined, 0, 100}

Call_assertQuoteWithinLimits ==
  /\ \E e \in SlipExpected, m \in SlipAmounts, c \in SlipCaps :
       Gated("assertQuoteWithinLimits",
           [expectedAmountOut |-> e, quotedMinOut |-> m, maxSlippageBps |-> c],
           assertQuoteWithinLimits(e, m, c), {}, World)
  /\ UNCHANGED <<now, confVars, drv, exec>>

Call_assertExecutionWithinLimits ==
  /\ \E e \in SlipExpected, a \in SlipAmounts, c \in SlipCaps :
       Gated("assertExecutionWithinLimits",
           [expectedAmountOut |-> e, actualAmountOut |-> a, maxSlippageBps |-> c],
           assertExecutionWithinLimits(e, a, c), {}, World)
  /\ UNCHANGED <<now, confVars, drv, exec>>

\* the round trip: computeMinOut, then assertExecutionWithinLimits on the
\* same expected amount and threshold with an actual amount at, just below or
\* just above the minOut that came back
QuoteExpected == {0, 1, 3, 199, 200, 1000, 9999, 12345}
QuoteCaps == {Undefined, 0, 1, 33, 50, 100, 9999, 10000}
AroundMinOut == {0 - 1, 0, 1}

Call_computeMinOut ==
  /\ \E e \in QuoteExpected, c \in QuoteCaps :
       Gated("computeMinOut", [expectedAmountOut |-> e, maxSlippageBps |-> c],
             "none", computeMinOut(e, c), World)
  /\ UNCHANGED <<now, confVars, drv, exec>>

Call_assertExecutionOfMinOut ==
  /\ gate.op = "computeMinOut"
  /\ \E d \in AroundMinOut :
       LET e == gate.in.expectedAmountOut
           c == gate.in.maxSlippageBps
           a == gate.out.minOut + d
       IN Gated("assertExecutionWithinLimits",
                [expectedAmountOut |-> e, actualAmountOut |-> a, maxSlippageBps |-> c],
                assertExecutionWithinLimits(e, a, c), {}, World)
  /\ UNCHANGED <<now, confVars, drv, exec>>

\* feeManager.js: assertWithinCap({estimatedFee, maxFee}) of a FeeManager
\* constructed with the cap `configured` (null: none); the error code it fails
\* with ("none": it returned {fee, cap}) and the world it leaves
\* variant: the per-call maxFee is not looked at
assertWithinCap_IgnoresOverride(q, configured, estimatedFee, maxFee) ==
  LET fee == normalizeBigInt(estimatedFee)
  IN IF configured # Undefined /\ fee > configured
     THEN [code |-> "FEE_TOO_HIGH",
           q |-> Trip(q, "fee_too_high", D(NoTrade, "fee", fee))]
     ELSE [code |-> "none", q |-> q]

assertWithinCap(q, configured, estimatedFee, maxFee) ==
  LET fee == normalizeBigInt(estimatedFee)
      cap == IF maxFee # Undefined THEN normalizeBigInt(maxFee) ELSE configured
  IN IF cap # Undefined /\ fee > cap
     THEN [code |-> "FEE_TOO_HIGH",
           q |-> Trip(q, "fee_too_high", D(NoTrade, "fee", fee))]
     ELSE [code |-> "none", q |-> q]

ConfiguredMaxFees == {Undefined, 0, 100}
CallMaxFees == {Undefined, 0, 50, 200}
Fees == {Undefined, 0, 50, 51, 100, 101, 201}

Call_assertWithinCap ==
  /\ \E configured \in ConfiguredMaxFees, estimatedFee \in Fees, maxFee \in CallMaxFees :
       LET res == assertWithinCap(World, configured, estimatedFee, maxFee) IN
       Gated("assertWithinCap",
             [configured |-> configured, estimatedFee |-> estimatedFee, maxFee |-> maxFee],
             res.code, {}, res.q)
  /\ UNCHANGED <<now, confVars, drv, exec>>

ValidatorConfs ==
  [minReserve : {[IN |-> r, FEE |-> Undefined] : r \in {Undefined, 100}},
   maxTradeFractionBps : {0, 3333, 5000, 10000},
   maxTradeAmount : {Undefined, 400},
   feeAsset : BOOLEAN, feeBuffer : {0}]
WalletBalances == {[IN |-> b, FEE |-> 1000] : b \in {Undefined, 1000}}
AssetIn == 1                  \* the asset "IN", as a trade names it
Trades ==
  {[present |-> FALSE, amountIn |-> Undefined, assetIn |-> Undefined],
   [present |-> TRUE, amountIn |-> 500, assetIn |-> Undefined]}
     \cup [present : {TRUE}, amountIn : {0, 333, 334, 500, 600}, assetIn : {AssetIn}]
FeeEstimates == {Undefined, 1200}

Call_validate ==
  /\ \E cfg \in ValidatorConfs, balances \in WalletBalances, trade \in Trades,
        estimatedFee \in FeeEstimates :
       Gated("validate",
             [cfg |-> cfg, balances |-> balances, trade |-> trade,
              estimatedFee |-> estimatedFee],
             validate(cfg, balances, trade, estimatedFee), {}, World)
  /\ UNCHANGED <<now, confVars, drv, exec>>

ExpectedBalances == [Assets -> {Undefined, 100}]
ActualBalances == [Assets -> {Undefined, 97, 100}]
Tolerances == {[ETH |-> t, USDC |-> Undefined] : t \in {Undefined, 2, 5}}

\* reconcile(): walletProvider.getBalances() has answered; the comparison,
\* the trip and the throw follow in one go
Call_reconcile ==
  /\ \E tolerance \in Tolerances, expected \in ExpectedBalances,
        actual \in ActualBalances :
       LET mismatches == mismatchesOf(tolerance, expected, actual) IN
       Gated("reconcile",
             [tolerance |-> tolerance, expected |-> expected, actual |-> actual],
             IF mismatches # {} THEN "BALANCE_RECONCILIATION_MISMATCH" ELSE "none",
             mismatches,
             IF mismatches # {}
             THEN Trip(World, "balance_reconciliation_mismatch",
                       D(NoTrade, "reconcile", Cardinality(mismatches)))
             ELSE World)
  /\ UNCHANGED <<now, confVars, drv, exec>>

\* ------------------------------------------------------------- RiskManager
\* riskManager.js: one preTradeCheck({trade, txRequests, expectedBalances})
\* call. call.walletMonitor .. call.validator tell which gates the RiskManager
\* was constructed with, call.expected whether expectedBalances was passed,
\* call.n is txRequests.length. The wallet monitor has minBalances {IN: 100},
\* no drawdown limit and no alert sink; the reconciler expects {ETH: 100} with
\* tolerance 2; the fee manager has the cap 100 and the requests name none;
\* the validator has maxTradeFractionBps 5000 and checks the fee asset.
NoBalances == [IN |-> Undefined, FEE |-> Undefined]

RiskValidatorConf ==
  [minReserve |-> NoBalances, maxTradeFractionBps |-> 5000,
   maxTradeAmount |-> Undefined, feeAsset |-> TRUE, feeBuffer |-> 0]
RiskMinBalances == [IN |-> 100, FEE |-> Undefined]
RiskMaxFee == 100
RiskExpected == [ETH |-> 100, USDC |-> Undefined]
RiskTolerance == [ETH |-> 2, USDC |-> Undefined]

RiskTrades ==
  {[present |-> FALSE, amountIn |-> Undefined, assetIn |-> Undefined,
    expectedAmountOut |-> Undefined, quotedMinOut |-> Undefined]}
    \cup [present : {TRUE}, amountIn : {500, 600}, assetIn : {AssetIn},
          expectedAmountOut : {1000}, quotedMinOut : {Undefined, 994, 995}]
    \cup [present : {TRUE}, amountIn : {500}, assetIn : {AssetIn},
          expectedAmountOut : {Undefined}, quotedMinOut : {Undefined}]

RiskCalls ==
  [trade : RiskTrades, n : 0 .. MaxRequests, expected : BOOLEAN,
   walletMonitor : BOOLEAN, reconciler : BOOLEAN, feeManager : BOOLEAN,
   slippageEnforcer : BOOLEAN, validator : BOOLEAN]

IdleRisk ==
  [pc |-> "idle", call |-> <<>>, i |-> 0, estimatedFeeTotal |-> 0,
   walletSnapshot |-> NoBalances, error |-> "null",
   trace |-> <<>>, failed |-> "null", haltedAtCall |-> FALSE]

\* the gate `by` raised `code`: nothing catches it, the call rejects with it
RiskThrew(q, r, by, code) ==
  [q |-> q, r |-> [r EXCEPT !.pc = "threw", !.error = code, !.failed = by]]

\* riskManager.js:56-91: the slippage gate, the capital gate, the return
RiskFinish(q, r) ==
  LET trade == r.call.trade
      slips == r.call.slippageEnforcer /\ trade.expectedAmountOut # Undefined
      quoted == slips /\ trade.quotedMinOut # Undefined
      quoteCode == assertQuoteWithinLimits(trade.expectedAmountOut, trade.quotedMinOut,
                                           Undefined)
      r1 == [r EXCEPT !.trace = @ \o (IF slips THEN <<"computeMinOut">> ELSE <<>>)
                                  \o (IF quoted THEN <<"assertQuoteWithinLimits">> ELSE <<>>)]
      r2 == [r1 EXCEPT !.trace = Append(@, "validate")]
      capitalCode == validate(RiskValidatorConf, r.walletSnapshot, trade,
                              r.estimatedFeeTotal)
  IN
  IF quoted /\ quoteCode # "none" THEN RiskThrew(q, r1, "assertQuoteWithinLimits", quoteCode)
  ELSE IF ~r.call.validator THEN [q |-> q, r |-> [r1 EXCEPT !.pc = "returned"]]
  ELSE IF capitalCode # "none" THEN RiskThrew(q, r2, "validate", capitalCode)
  ELSE [q |-> q, r |-> [r2 EXCEPT !.pc = "returned"]]

\* riskManager.js:48-54: the next txRequest, if any, goes to estimateFee
RiskFees(q, r) ==
  IF r.call.feeManager /\ r.i < r.call.n
  THEN [q |-> q, r |-> [r EXCEPT !.pc = "fee", !.i = @ + 1,
                                 !.trace = Append(@, "estimateFee")]]
  ELSE RiskFinish(q, r)

\* riskManager.js:44-46
RiskReconcile(q, r) ==
  IF r.call.reconciler /\ r.call.expected
  THEN [q |-> q, r |-> [r EXCEPT !.pc = "reconcile",
                                 !.trace = Append(@, "reconciler.getBalances")]]
  ELSE RiskFees(q, r)

\* riskManager.js:39-42
RiskWallet(q, r) ==
  IF r.call.walletMonitor
  THEN [q |-> q, r |-> [r EXCEPT !.pc = "wallet",
                                 !.trace = Append(@, "walletMonitor.getBalances")]]
  ELSE RiskReconcile(q, r)

\* variant: the breaker is not consulted
preTradeCheck_NoHealthCheck(q, call) ==
  LET r0 == [IdleRisk EXCEPT !.call = call, !.haltedAtCall = HaltedIn(q.state),
                             !.trace = <<"ensureHealthy">>]
  IN IF ~call.trade.present THEN RiskThrew(q, [r0 EXCEPT !.trace = <<>>],
                                           "arguments", "MISSING_TRADE")
     ELSE RiskWallet(q, r0)

\* riskManager.js:33-37: the call, up to its first await
preTradeCheck(q, call) ==
  LET h == ensureHealthy(q.state)
      q1 == Breaker(q, h.st)
      r0 == [IdleRisk EXCEPT !.call = call, !.haltedAtCall = HaltedIn(q.state)]
      r1 == [r0 EXCEPT !.trace = <<"ensureHealthy">>]
  IN IF ~call.trade.present THEN RiskThrew(q, r0, "arguments", "MISSING_TRADE")
     ELSE IF h.threw THEN RiskThrew(q1, r1, "ensureHealthy", "CircuitBreakerTrippedError")
     ELSE RiskWallet(q1, r1)

RiskDone(res) ==
  /\ Commit(res.q)
  /\ risk' = res.r
  /\ UNCHANGED <<now, confVars, gate, pm, drv, exec>>

Call_preTradeCheck ==
  /\ risk.pc = "idle"
  /\ \E call \in RiskCalls : RiskDone(preTradeCheck(World, call))

\* WalletBalanceMonitor.checkNow after provider.getBalances() settled
\* (capitalSafety.js:226-291)
WalletSettled(q, r, threw, balances) ==
  LET violations == {a \in {"IN", "FEE"} :
                        readBalance(balances, a) < normalizeBigInt(RiskMinBalances[a])}
  IN
  IF threw THEN RiskThrew(q, r, "walletMonitor.getBalances", "ProviderError")
  ELSE IF violations # {}
  THEN RiskThrew(Trip(q, "wallet_balance_violation",
                      D(NoTrade, "wallet", Cardinality(violations))),
                 r, "walletMonitor.getBalances", "WALLET_BALANCE_VIOLATION")
  ELSE RiskReconcile(q, [r EXCEPT !.walletSnapshot = balances])

RiskWalletBalances == {[IN |-> b, FEE |-> 1000] : b \in {50, 1000}}

RiskWalletDone ==
  /\ risk.pc = "wallet"
  /\ \E threw \in BOOLEAN, balances \in RiskWalletBalances :
       RiskDone(WalletSettled(World, risk, threw, balances))

\* BalanceReconciler.reconcile after walletProvider.getBalances() settled
ReconcileSettled(q, r, threw, actual) ==
  LET mismatches == mismatchesOf(RiskTolerance, RiskExpected, actual) IN
  IF threw THEN RiskThrew(q, r, "reconciler.getBalances", "ProviderError")
  ELSE IF mismatches # {}
  THEN RiskThrew(Trip(q, "balance_reconciliation_mismatch",
                      D(NoTrade, "reconcile", Cardinality(mismatches))),
                 r, "reconciler.getBalances", "BALANCE_RECONCILIATION_MISMATCH")
  ELSE RiskFees(q, r)

RiskActualBalances == {[ETH |-> b, USDC |-> Undefined] : b \in {97, 100}}

RiskReconcileDone ==
  /\ risk.pc = "reconcile"
  /\ \E threw \in BOOLEAN, actual \in RiskActualBalances :
       RiskDone(ReconcileSettled(World, risk, threw, actual))

\* FeeManager.estimateAndValidate after provider.estimateFee() settled
\* (feeManager.js:56-60, riskManager.js:51-52)
FeeSettled(q, r, threw, fee) ==
  LET res == assertWithinCap(q, RiskMaxFee, fee, Undefined)
      r1 == [r EXCEPT !.trace = Append(@, "assertWithinCap")]
  IN
  IF threw THEN RiskThrew(q, r, "estimateFee", "ProviderError")
  ELSE IF res.code # "none" THEN RiskThrew(res.q, r1, "assertWithinCap", res.code)
  ELSE RiskFees(res.q, [r1 EXCEPT !.estimatedFeeTotal = @ + normalizeBigInt(fee)])

RiskFeeEstimates == {50, 101}

RiskFeeDone ==
  /\ risk.pc = "fee"
  /\ \E threw \in BOOLEAN, fee \in RiskFeeEstimates :
       RiskDone(FeeSettled(World, risk, threw, fee))

\* ----------------------------------------------------------- ProfitManager
\* pouseidon-bot-v2/profitManager.js. Amounts are integers, for which the
\* arithmetic of the code's doubles is exact (below 2^53); the two fractions
\* profitTargetPercent and withdrawPercentOfProfit are counted in quarters, and
\* the pnl values are multiples of four, so that profit * fraction is exact as
\* well. Time is counted in half days. No onCycleClosed hook is installed.
MS_PER_DAY == 2
Quarters == 4
NoManager == [calls |-> 0]

\* CompoundingCycle._updateMilestones(nowMs)
updateMilestones(c, nowMs) ==
  LET elapsedMs == nowMs - c.startTimeMs
      upTo == Min(elapsedMs \div MS_PER_DAY, c.maxMilestoneIndex)
      more == IF upTo >= c.nextMilestoneIndex THEN upTo - c.nextMilestoneIndex + 1 ELSE 0
  IN
  IF elapsedMs < 0 THEN c
  ELSE [c EXCEPT
          !.milestones = @ \o [k \in 1 .. more |->
             [day |-> c.nextMilestoneIndex + k - 1,
              timestampMs |-> c.startTimeMs + (c.nextMilestoneIndex + k - 1) * MS_PER_DAY,
              capital |-> c.currentCapital, cyclePnl |-> c.realizedPnl]],
          !.nextMilestoneIndex = @ + more]

\* new CompoundingCycle({...}), for a startingCapital the constructor accepts
CompoundingCycle(id, startTimeMs, durationMs, startingCapital) ==
  updateMilestones(
    [id |-> id, startTimeMs |-> startTimeMs, durationMs |-> durationMs,
     endTimeMs |-> NullTime, startingCapital |-> startingCapital,
     currentCapital |-> startingCapital, realizedPnl |-> 0, tradeCount |-> 0,
     closed |-> FALSE, closeReason |-> NullReason,
     withdrawnAmount |-> 0, reinvestedAmount |-> 0,
     milestones |-> <<>>, nextMilestoneIndex |-> 0,
     maxMilestoneIndex |-> (durationMs + MS_PER_DAY - 1) \div MS_PER_DAY,
     trades |-> <<>>],
    startTimeMs)

isExpired(c, atTimeMs) == atTimeMs >= c.startTimeMs + c.durationMs

\* variant: the target has to be exceeded
isProfitTargetHit_Strict(m, c) ==
  c.realizedPnl * Quarters > c.startingCapital * m.profitTargetPercent

\* realizedPnl >= startingCapital * profitTargetPercent
isProfitTargetHit(m, c) ==
  c.realizedPnl * Quarters >= c.startingCapital * m.profitTargetPercent

\* variant: the capital is not moved by the trade
cycleRecordTrade_NoCompounding(c, pnl, timestampMs) ==
  LET c1 == updateMilestones(c, timestampMs) IN
  [c1 EXCEPT !.tradeCount = @ + 1, !.realizedPnl = @ + pnl,
             !.trades = Append(@, [pnl |-> pnl, timestampMs |-> timestampMs,
                                   capitalAfter |-> c1.currentCapital,
                                   cyclePnlAfter |-> c1.realizedPnl + pnl])]

\* CompoundingCycle.recordTrade on an open cycle
cycleRecordTrade(c, pnl, timestampMs) ==
  LET c1 == updateMilestones(c, timestampMs) IN
  [c1 EXCEPT !.tradeCount = @ + 1, !.realizedPnl = @ + pnl,
             !.currentCapital = @ + pnl,
             !.trades = Append(@, [pnl |-> pnl, timestampMs |-> timestampMs,
                                   capitalAfter |-> c1.currentCapital + pnl,
                                   cyclePnlAfter |-> c1.realizedPnl + pnl])]

\* CompoundingCycle.close on an open cycle
close(c, endTimeMs, reason, withdrawnAmount, reinvestedAmount) ==
  [updateMilestones(c, endTimeMs) EXCEPT
     !.closed = TRUE, !.endTimeMs = endTimeMs, !.closeReason = reason,
     !.withdrawnAmount = withdrawnAmount, !.reinvestedAmount = reinvestedAmount]

\* ProfitManager._closeActiveCycle; the constructor of the next cycle throws a
\* TypeError when its starting capital is not positive, after the counter has
\* moved and the closed cycle is in the history
closeActiveCycle(m, endTimeMs, reason) ==
  LET cycle == m.activeCycle
      profit == cycle.realizedPnl
      withdrawAmount == IF profit > 0
                        THEN (profit * m.withdrawPercentOfProfit) \div Quarters ELSE 0
      reinvestAmount == profit - withdrawAmount
      closed == close(cycle, endTimeMs, reason, withdrawAmount, reinvestAmount)
      nextStartingCapital == cycle.startingCapital + reinvestAmount
      m1 == [m EXCEPT !.totalWithdrawn = @ + withdrawAmount,
                      !.totalRealizedPnl = @ + profit,
                      !.activeCycle = closed,
                      !.history = Append(@, closed),
                      !.cycleCounter = @ + 1]
  IN
  IF nextStartingCapital <= 0 THEN [m1 EXCEPT !.threw = "TypeError"]
  ELSE [m1 EXCEPT !.activeCycle = CompoundingCycle(m1.cycleCounter, endTimeMs,
                                                    m.cycleDurationMs, nextStartingCapital)]

\* ProfitManager.evaluate(atTime)
evaluate(m, atTimeMs) ==
  IF m.activeCycle.closed THEN m
  ELSE IF isExpired(m.activeCycle, atTimeMs)
  THEN closeActiveCycle(m, atTimeMs, "duration")
  ELSE m

\* ProfitManager.recordLoop(trade) = recordTrade({pnl, timestamp})
recordTrade(m, pnl, timestampMs) ==
  LET m1 == evaluate(m, timestampMs)
      c == cycleRecordTrade(m1.activeCycle, pnl, timestampMs)
      m2 == [m1 EXCEPT !.activeCycle = c, !.last.cycle = c]
  IN
  IF m1.threw # "none" THEN m1
  ELSE IF m1.activeCycle.closed THEN [m1 EXCEPT !.threw = "Error"]
  ELSE IF isProfitTargetHit(m2, c) THEN closeActiveCycle(m2, timestampMs, "profit-target")
  ELSE m2

\* new ProfitManager({...}) at Date.now() = 0
ProfitManager(initialCapital, cycleDurationDays, profitTargetPercent, withdrawPercentOfProfit) ==
  [cycleDurationMs |-> cycleDurationDays * MS_PER_DAY,
   profitTargetPercent |-> profitTargetPercent,
   withdrawPercentOfProfit |-> clampInt(withdrawPercentOfProfit, 0, Quarters),
   cycleCounter |-> 1, history |-> <<>>,
   totalWithdrawn |-> 0, totalRealizedPnl |-> 0,
   activeCycle |-> CompoundingCycle(1, 0, cycleDurationDays * MS_PER_DAY, initialCapital),
   threw |-> "none", calls |-> 0,
   last |-> [op |-> "new", at |-> 0, pnl |-> 0,
             cycle |-> CompoundingCycle(1, 0, cycleDurationDays * MS_PER_DAY, initialCapital)]]

InitialCapitals == {8, 16}
CycleDurationDays == {1, 2}
ProfitTargets == {1, 2}
WithdrawShares == {0, 2, 4}
Pnls == {0 - 8, 0 - 4, 4}
Stamps == 0 .. MaxStamp

\* the call, on a manager whose ghost fields are set for it
Entered(op, atTimeMs, pnl) ==
  [pm EXCEPT !.threw = "none", !.calls = @ + 1,
             !.last = [op |-> op, at |-> atTimeMs, pnl |-> pnl, cycle |-> pm.activeCycle]]

Call_recordLoop ==
  /\ pm.calls < MaxCalls
  /\ \E pnl \in Pnls, timestampMs \in Stamps :
       pm' = recordTrade(Entered("recordLoop", timestampMs, pnl), pnl, timestampMs)
  /\ UNCHANGED <<now, confVars, breakerVars, drv, queueVars, exec, ledger, gate, risk>>

Call_evaluate ==
  /\ pm.calls < MaxCalls
  /\ \E atTimeMs \in Stamps :
       pm' = evaluate(Entered("evaluate", atTimeMs, 0), atTimeMs)
  /\ UNCHANGED <<now, confVars, breakerVars, drv, queueVars, exec, ledger, gate, risk>>

\* ------------------------------------------------- breaker driver (harness)
\* A caller that holds only the breaker and calls its methods in any order.
DriverReasons == {"r1", "r2"}
DriverData == {D(NoTrade, "d1", 0), D(NoTrade, "d2", 0)}
MaxFailuresChoices == {0, 1, 2, 3}
CoolOffChoices == {0, 2}

NoErr == [reason |-> NullReason, data |-> NullData]
\* op: the method; pre: the state it found; trip: firstTrip as it found it;
\* ret: isHalted()'s answer or "ensureHealthy() threw"; err: the error thrown;
\* pure: only recordFailure / recordSuccess were called so far; streak: while
\* pure, the recordFailure calls since the last recordSuccess, counted by the
\* driver
DrvInit ==
  [op |-> "none", at |-> NullTime, pre |-> InitialState, trip |-> NoTrip,
   ret |-> FALSE, err |-> NoErr, streak |-> 0, pure |-> TRUE]
DrvCall(op, ret, err) ==
  [op |-> op, at |-> now, pre |-> state, trip |-> firstTrip, ret |-> ret, err |-> err,
   streak |-> IF drv.pure /\ op = "recordFailure" THEN drv.streak + 1 ELSE 0,
   pure |-> drv.pure /\ op \in {"recordFailure", "recordSuccess"}]

Call_trip ==
  /\ \E r \in DriverReasons, d \in DriverData : Commit(Trip(World, r, d))
  /\ drv' = DrvCall("trip", FALSE, NoErr)
  /\ UNCHANGED <<now, confVars, gate, risk, pm, exec>>

Call_reset ==
  /\ Commit(Breaker(World, reset(state)))
  /\ drv' = DrvCall("reset", FALSE, NoErr)
  /\ UNCHANGED <<now, confVars, gate, risk, pm, exec>>

Call_recordSuccess ==
  /\ Commit(Breaker(World, recordSuccess(state)))
  /\ drv' = DrvCall("recordSuccess", FALSE, NoErr)
  /\ UNCHANGED <<now, confVars, gate, risk, pm, exec>>

Call_recordFailure ==
  /\ state.consecutiveFailures < MaxFailCount
  /\ LET post == recordFailure(state, "driver") IN
     Commit(RecordedFailure(World, post, "driver"))
  /\ drv' = DrvCall("recordFailure", FALSE, NoErr)
  /\ UNCHANGED <<now, confVars, gate, risk, pm, exec>>

Call_isHalted ==
  /\ LET r == isHalted(state) IN
       /\ Commit(Breaker(World, r.st))
       /\ drv' = DrvCall("isHalted", r.ret, NoErr)
  /\ UNCHANGED <<now, confVars, gate, risk, pm, exec>>

Call_ensureHealthy ==
  /\ LET r == ensureHealthy(state) IN
       /\ Commit(Breaker(World, r.st))
       /\ drv' = DrvCall("ensureHealthy", r.threw, [reason |-> r.reason, data |-> r.data])
  /\ UNCHANGED <<now, confVars, gate, risk, pm, exec>>

Tick ==
  /\ now < MaxTime
  /\ now' = now + 1
  /\ UNCHANGED <<confVars, gateVars, breakerVars, drv, queueVars, exec>>

InitBreaker ==
  /\ now = 1
  /\ maxConsecutiveFailures \in MaxFailuresChoices
  /\ coolOffMs \in CoolOffChoices
  /\ state = InitialState
  /\ firstTrip = NoTrip
  /\ lateTrip = NoLate
  /\ drv = DrvInit
  /\ conf = IdleConf
  /\ running = FALSE
  /\ queue = <<>>
  /\ tasks = <<>>
  /\ workers = <<>>
  /\ exec = IdleExec
  /\ ledger = <<>>
  /\ gate = NoGate
  /\ risk = IdleRisk
  /\ pm = NoManager

NextBreaker ==
  \/ Call_trip
  \/ Call_reset
  \/ Call_recordSuccess
  \/ Call_recordFailure
  \/ Call_isHalted
  \/ Call_ensureHealthy
  \/ Tick

SpecBreaker == InitBreaker /\ [][NextBreaker]_vars

\* --------------------------------------------------------------- the system
\* The breaker, the executor and the retry queue wired together as lib/index
\* exports them: the executor enqueues into the queue the workers drain.
SystemConfs ==
  [concurrency : {1, 2}, baseDelayMs : {1}, maxDelayMs : {4}, jitterMs : {0},
   provider : {"flaky"}, store : {"reliable"},
   execQueue : {TRUE}, execStore : {FALSE}, file : {FALSE}]

InitWith(confs, coolOffs) ==
  /\ now = 1
  /\ maxConsecutiveFailures = 3
  /\ coolOffMs \in coolOffs
  /\ state = InitialState
  /\ firstTrip = NoTrip
  /\ lateTrip = NoLate
  /\ drv = DrvInit
  /\ conf \in confs
  /\ running = FALSE
  /\ queue = <<>>
  /\ tasks = <<>>
  /\ workers = <<>>
  /\ exec = IdleExec
  /\ ledger = <<>>
  /\ gate = NoGate
  /\ risk = IdleRisk
  /\ pm = NoManager

Init == InitWith(SystemConfs, {2})

WorkerNext ==
  \/ \E w \in 1 .. Len(workers) : WorkerWake(w)
  \/ \E w \in 1 .. Len(workers) : WorkerBackoffDone(w)
  \/ \E w \in 1 .. Len(workers) : WorkerSendDone(w)

ExecNext ==
  \/ Call_executeSequence
  \/ ExecSendDone
  \/ ExecReceiptDone
  \/ ExecRecoveryDone

Next ==
  \/ start
  \/ stop
  \/ WorkerNext
  \/ ExecNext
  \/ Tick

Spec == Init /\ [][Next]_vars

\* ------------------------------------------------- the retry queue by itself
\* The queue and the breaker, with the callers around them as environment:
\* enqueue() and trip() by a validation gate.
QueueConfs ==
  [concurrency : {1, 2}, baseDelayMs : {1}, maxDelayMs : {4}, jitterMs : {0},
   provider : {"flaky"}, store : {"reliable", "faulty"},
   execQueue : {FALSE}, execStore : {FALSE}, file : {FALSE}]

InitQueue == InitWith(QueueConfs, CoolOffChoices)

NextQueue ==
  \/ start
  \/ stop
  \/ WorkerNext
  \/ Call_enqueue
  \/ GateTrip
  \/ Tick

SpecQueue == InitQueue /\ [][NextQueue]_vars

\* --------------------------------------------------- the executor by itself
\* executeSequence calls against a breaker that a validation gate can trip
\* under it; the retry queue, when configured, only collects.
ExecConfs ==
  [concurrency : {1}, baseDelayMs : {1}, maxDelayMs : {4}, jitterMs : {0},
   provider : {"flaky"}, store : {"faulty"},
   execQueue : BOOLEAN, execStore : BOOLEAN, file : {FALSE}]

InitExec == InitWith(ExecConfs, {2})

NextExec ==
  \/ ExecNext
  \/ GateTrip
  \/ Tick

SpecExec == InitExec /\ [][NextExec]_vars


\* --------------------------------------------------- the shared ledger
\* The executor and the queue wired to one FileFailedTxStore: trades are
\* executed one after the other, their retryable failures are retried by the
\* workers, and every line either of them files is kept.
LedgerConfs ==
  [concurrency : {2}, baseDelayMs : {1}, maxDelayMs : {4}, jitterMs : {0},
   provider : {"flaky"}, store : {"reliable"},
   execQueue : {TRUE}, execStore : {TRUE}, file : {TRUE}]

InitLedger == InitWith(LedgerConfs, {0})

NextLedger ==
  \/ start
  \/ WorkerNext
  \/ Call_executeTrade
  \/ ExecSendDone
  \/ ExecReceiptDone

SpecLedger == InitLedger /\ [][NextLedger]_vars

\* ------------------------------------------------------ the attempt budget
\* The queue with callers that ask for any maxAttempts: none, one below the
\* range, one inside it, one above it.
BudgetRequests == {Undefined, 0, 2, MaxAttemptsCap + 1}

Call_enqueueBudget ==
  /\ Len(tasks) < MaxTasks
  /\ \E maxAttempts \in BudgetRequests :
       Commit(enqueue(World, 1, "swap", maxAttempts, Undefined))
  /\ UNCHANGED <<now, confVars, gate, risk, pm, drv, exec>>

BudgetConfs ==
  [concurrency : {1, 2}, baseDelayMs : {1}, maxDelayMs : {4}, jitterMs : {0},
   provider : {"flaky"}, store : {"reliable"},
   execQueue : {FALSE}, execStore : {FALSE}, file : {FALSE}]

InitBudget == InitWith(BudgetConfs, {2})

NextBudget ==
  \/ start
  \/ WorkerNext
  \/ Call_enqueueBudget
  \/ Tick

SpecBudget == InitBudget /\ [][NextBudget]_vars

\* ------------------------------------------------------ the retry scenario
\* One task already enqueued, a provider whose sendTransaction always fails, a
\* ledger that works, nobody else touching the breaker; then start().
RetryConfs ==
  [concurrency : {1, 2}, baseDelayMs : {1, 2}, maxDelayMs : {3, 8}, jitterMs : {0, 2},
   provider : {"alwaysFail"}, store : {"reliable"},
   execQueue : {FALSE}, execStore : {FALSE}, file : {FALSE}]

InitRetry ==
  /\ now = 1
  /\ maxConsecutiveFailures = 3
  /\ coolOffMs = 2
  /\ state = InitialState
  /\ firstTrip = NoTrip
  /\ lateTrip = NoLate
  /\ drv = DrvInit
  /\ conf \in RetryConfs
  /\ running = FALSE
  /\ \E m \in 1 .. MaxBudget : tasks = <<NewTask(1, "swap", m, Undefined)>>
  /\ queue = <<1>>
  /\ workers = <<>>
  /\ exec = IdleExec
  /\ ledger = <<>>
  /\ gate = NoGate
  /\ risk = IdleRisk
  /\ pm = NoManager

NextRetry ==
  \/ start
  \/ WorkerNext
  \/ Tick

WorkerStep(w) ==
  /\ w <= Len(workers)
  /\ (WorkerWake(w) \/ WorkerBackoffDone(w) \/ WorkerSendDone(w))

\* timers fire and the provider settles every send
FairSpecRetry ==
  /\ InitRetry
  /\ [][NextRetry]_vars
  /\ WF_vars(start)
  /\ \A w \in 1 .. MaxLoops : WF_vars(WorkerStep(w))

\* ---------------------------------------------------- the waiting scenario
\* The queue was started on an empty queue, so its workers are polling; tasks
\* are enqueued while they run; every send settles, as a handle or as an
\* error; the ledger works; the operator resets the breaker whenever it is
\* halted, and a cool-off, when there is one, ends the halt as well. Nobody
\* but the queue trips the breaker and nobody stops the queue.
WaitingConfs ==
  [concurrency : {1, 2}, baseDelayMs : {1}, maxDelayMs : {4}, jitterMs : {0},
   provider : {"flaky"}, store : {"reliable"},
   execQueue : {FALSE}, execStore : {FALSE}, file : {FALSE}]

InitWaiting ==
  /\ now = 1
  /\ maxConsecutiveFailures = 3
  /\ coolOffMs \in {0, 1}
  /\ state = InitialState
  /\ firstTrip = NoTrip
  /\ lateTrip = NoLate
  /\ drv = DrvInit
  /\ conf \in WaitingConfs
  /\ running = TRUE
  /\ tasks = <<>>
  /\ queue = <<>>
  /\ workers = [w \in 1 .. clampInt(conf.concurrency, 1, ConcurrencyCap) |-> NewWorker(w)]
  /\ exec = IdleExec
  /\ ledger = <<>>
  /\ gate = NoGate
  /\ risk = IdleRisk
  /\ pm = NoManager

\* the operator's reset() of a halted breaker
Call_resetHalted ==
  /\ state.halted
  /\ Commit(Breaker(World, reset(state)))
  /\ UNCHANGED <<now, confVars, gate, risk, pm, drv, exec>>

NextWaiting ==
  \/ WorkerNext
  \/ Call_enqueue
  \/ Call_resetHalted
  \/ Tick

\* timers fire, the provider settles every send, and a halted breaker is reset
FairSpecWaiting ==
  /\ InitWaiting
  /\ [][NextWaiting]_vars
  /\ WF_vars(Call_resetHalted)
  /\ \A w \in 1 .. MaxLoops : WF_vars(WorkerStep(w))

\* ------------------------------------------------------ the ledger driver
StoreConfs == {[IdleConf EXCEPT !.store = o] : o \in {"reliable", "faulty"}}
InitStore == InitWith(StoreConfs, {0})

NextStore ==
  \/ Call_storeRecordFailure
  \/ Call_storeRecordRetryAttempt

SpecStore == InitStore /\ [][NextStore]_vars

\* -------------------------------------------------------- the gate driver
\* no cool-off and no reset(): once a gate has tripped the breaker, the later
\* calls find it halted
InitGates == InitWith({IdleConf}, {0})

NextGates ==
  \/ Call_validate
  \/ Call_assertQuoteWithinLimits
  \/ Call_assertExecutionWithinLimits
  \/ Call_reconcile

SpecGates == InitGates /\ [][NextGates]_vars

\* ---------------------------------------------------- the slippage driver
NextSlippage ==
  \/ Call_computeMinOut
  \/ Call_assertExecutionOfMinOut

SpecSlippage == InitGates /\ [][NextSlippage]_vars

\* --------------------------------------------------------- the fee driver
\* assertWithinCap calls, and an operator who resets the breaker between them
NextFee ==
  \/ Call_assertWithinCap
  \/ Call_reset

SpecFee == InitGates /\ [][NextFee]_vars

\* ------------------------------------------------------- the risk driver
\* one preTradeCheck call, while other components trip the breaker and time
\* passes
InitRisk == InitWith({IdleConf}, {2})

NextRisk ==
  \/ Call_preTradeCheck
  \/ RiskWalletDone
  \/ RiskReconcileDone
  \/ RiskFeeDone
  \/ GateTrip
  \/ Tick

SpecRisk == InitRisk /\ [][NextRisk]_vars

\* ------------------------------------------------ the ProfitManager driver
InitProfit ==
  /\ now = 1
  /\ maxConsecutiveFailures = 3
  /\ coolOffMs = 0
  /\ state = InitialState
  /\ firstTrip = NoTrip
  /\ lateTrip = NoLate
  /\ drv = DrvInit
  /\ conf = IdleConf
  /\ running = FALSE
  /\ queue = <<>>
  /\ tasks = <<>>
  /\ workers = <<>>
  /\ exec = IdleExec
  /\ ledger = <<>>
  /\ gate = NoGate
  /\ risk = IdleRisk
  /\ \E initialCapital \in InitialCapitals, cycleDurationDays \in CycleDurationDays,
        profitTargetPercent \in ProfitTargets, withdrawPercentOfProfit \in WithdrawShares :
       pm = ProfitManager(initialCapital, cycleDurationDays, profitTargetPercent,
                          withdrawPercentOfProfit)

NextProfit ==
  \/ Call_recordLoop
  \/ Call_evaluate

SpecProfit == InitProfit /\ [][NextProfit]_vars

\* ------------------------------------------------------------------ claims
TooMany == "too_many_consecutive_failures"

\* C4: from a healthy breaker with maxConsecutiveFailures = M > 0, under calls
\* of recordFailure and recordSuccess only, the breaker becomes halted (reason
\* too_many_consecutive_failures) exactly at the recordFailure that completes
\* M failures in a row, not earlier and not later; every recordSuccess leaves
\* consecutiveFailures = 0.
C4_TripsExactlyAtThreshold ==
  /\ (drv.op = "recordSuccess") =>
        (state.consecutiveFailures = 0 /\ state.halted = drv.pre.halted)
  /\ (drv.pure /\ maxConsecutiveFailures > 0) =>
        /\ (drv.op = "recordFailure" /\ ~drv.pre.halted) =>
              (state.halted <=> drv.streak = maxConsecutiveFailures)
        /\ ~state.halted => drv.streak < maxConsecutiveFailures
        /\ state.halted => state.reason = TooMany

C4_Witness ==
  /\ drv.pure /\ drv.op = "recordFailure"
  /\ maxConsecutiveFailures = 3 /\ drv.streak = 3
  /\ ~drv.pre.halted /\ state.halted /\ state.reason = TooMany

\* C5: after a trip at time t with coolOffMs > 0, ensureHealthy() before
\* t + coolOffMs throws CircuitBreakerTrippedError with the trip's reason and
\* data and changes nothing; at or after t + coolOffMs it resets the breaker
\* and returns; a healthy breaker becomes halted only by trip() or by a
\* recordFailure() that reaches the threshold.
C5_CoolOffThenAutoReset ==
  /\ (drv.op = "ensureHealthy" /\ drv.pre.halted /\ coolOffMs > 0) =>
        IF drv.at < drv.trip.at + coolOffMs
        THEN /\ drv.ret
             /\ drv.err = [reason |-> drv.trip.reason, data |-> drv.trip.data]
             /\ state = drv.pre
        ELSE /\ ~drv.ret
             /\ state = InitialState
  /\ (drv.op # "none" /\ ~drv.pre.halted /\ state.halted) =>
        \/ drv.op = "trip"
        \/ /\ drv.op = "recordFailure"
           /\ maxConsecutiveFailures > 0
           /\ drv.pre.consecutiveFailures + 1 >= maxConsecutiveFailures

C5_Witness ==
  /\ drv.op = "ensureHealthy" /\ drv.pre.halted /\ coolOffMs > 0
  /\ drv.at = drv.trip.at + coolOffMs
  /\ ~drv.ret /\ ~state.halted

\* C7: in every state the breaker's methods can reach, halted = TRUE implies
\* trippedAt is set.
C7_HaltedHasTimestamp == state.halted => state.trippedAt # NullTime

C7_Witness ==
  /\ state.halted /\ drv.op = "recordFailure" /\ ~drv.pre.halted
  /\ state.trippedAt = drv.at

InQueue(t) == \E i \in 1 .. Len(queue) : queue[i] = t
Holders(t) == {w \in 1 .. Len(workers) : workers[w].task = t}
TaskIds == 1 .. Len(tasks)

\* C1: no worker calls provider.sendTransaction for a task at a moment when
\* the breaker is halted (cool-off not elapsed), whatever the interleaving of
\* workers, executor and trip() calls.
C1_NoSendWhileHalted ==
  \A w \in 1 .. Len(workers) : workers[w].pc = "sending" => ~workers[w].gate

\* C2: executeSequence never throws, whether the breaker is halted at call
\* time, the steps list is empty, the provider throws or the recovery throws;
\* every failure comes back as a SequenceResult with ok = FALSE. (A throw of
\* the ledger append is not among the inputs of this claim.)
C2_NeverThrows == exec.pc = "threw" => exec.error = "StoreError"

\* the result of a call whose step failedAt failed, but for failedScope
C3_ResultBut ==
  /\ ~exec.ok
  /\ Len(exec.completed) = exec.failedAt - 1
  /\ \A j \in 1 .. Len(exec.completed) :
       exec.completed[j] = [scope |-> Scope(exec.steps[j]),
                            txHash |-> TxHash(exec.tradeId, j), receipt |-> "success"]
  /\ exec.sent <= exec.failedAt
  /\ exec.i = exec.failedAt

\* C3 as claimed: when step k is the first to fail, the result has ok = FALSE,
\* completed = the records of steps 1..k-1 in order, failedScope = the scope
\* of step k, and no step after k is sent.
C3_AsClaimed ==
  (exec.pc = "returned" /\ exec.failedAt > 0) =>
     (C3_ResultBut /\ exec.failedScope = exec.steps[exec.failedAt].scope)

\* C3 as amended: the same, with failedScope = the scope of step k, or
\* 'unknown_step' when step k has no scope or an empty one.
C3_StopsAtFirstFailure ==
  /\ (exec.pc \in {"recovery", "returned"} /\ exec.failedAt > 0) =>
        /\ C3_ResultBut
        /\ exec.failedScope =
             (IF exec.steps[exec.failedAt].scope = "" THEN "unknown_step"
              ELSE exec.steps[exec.failedAt].scope)
  /\ (exec.pc = "returned" /\ exec.failedAt = 0) =>
        (exec.ok /\ Len(exec.completed) = exec.n)

C3_Witness ==
  /\ exec.pc = "returned" /\ exec.n = 3 /\ exec.failedAt = 2
  /\ Len(exec.completed) = 1 /\ exec.sent = 2
  /\ exec.failedScope = "unknown_step"

\* C6: while the breaker is halted, its reason, data and trippedAt are those
\* of the trip() that halted it, whoever calls trip() again in between.
C6_FirstTripWins ==
  state.halted =>
     /\ state.reason = firstTrip.reason
     /\ state.data = firstTrip.data
     /\ state.trippedAt = firstTrip.at

\* the executor tripped first, a retry worker tripped later, at a later time
C6_Witness ==
  /\ state.halted
  /\ firstTrip.reason \in {"atomic_execution_failed", "recovery_failed"}
  /\ lateTrip = "retry_exhausted"
  /\ now > firstTrip.at

\* C8: a single task of maxAttempts = M whose send always fails is sent
\* exactly M times; the M-th failure trips the breaker with reason
\* retry_exhausted and leaves the task out of the queue; and this happens.
C8_Counts ==
  \A t \in TaskIds :
     /\ tasks[t].sends <= tasks[t].maxAttempts
     /\ tasks[t].outcome # "succeeded"
     /\ tasks[t].outcome = "exhausted" =>
          /\ tasks[t].sends = tasks[t].maxAttempts
          /\ ~InQueue(t)
          /\ Holders(t) = {}

C8_TripsOnExhaustion ==
  \A t \in TaskIds :
     (tasks[t].outcome # "exhausted" /\ tasks'[t].outcome = "exhausted") =>
        /\ state'.halted
        /\ state'.reason = "retry_exhausted"
        /\ state'.data = D(tasks[t].tradeId, tasks[t].scope, tasks[t].maxAttempts)

C8_ExhaustsAfterMaxAttempts ==
  /\ []C8_Counts
  /\ [][C8_TripsOnExhaustion]_vars
  /\ <>(\A t \in TaskIds : tasks[t].outcome = "exhausted")

C8_Witness ==
  /\ tasks[1].maxAttempts = 3 /\ tasks[1].sends = 3
  /\ tasks[1].outcome = "exhausted"
  /\ state.halted /\ state.reason = "retry_exhausted"

\* C9 as claimed: every backoff slept for a task is at least the backoff
\* slept before its previous attempt.
C9_AsClaimed ==
  \A w \in 1 .. Len(workers) :
     (workers[w].pc = "backoff" /\ tasks[workers[w].task].attempt > 2) =>
        workers[w].delay >= tasks[workers[w].task].slept

\* C9 as amended: the jitter-free part min(maxDelayMs, baseDelayMs *
\* 2^(attempt-1)) never decreases from one attempt to the next, and the
\* backoff slept is at least the previous one whenever that part grew by at
\* least jitterMs - 1.
C9_BackoffGrowsUpToJitter ==
  \A w \in 1 .. Len(workers) :
     LET a == tasks[workers[w].task].attempt
         grew == computeDelayMs(a, 0) - computeDelayMs(a - 1, 0)
     IN
     (workers[w].pc = "backoff" /\ a > 2) =>
        /\ grew >= 0
        /\ workers[w].delay >= computeDelayMs(a, 0)
        /\ workers[w].delay <= computeDelayMs(a, 0) + Max(conf.jitterMs - 1, 0)
        /\ grew >= conf.jitterMs - 1 =>
             workers[w].delay >= tasks[workers[w].task].slept

C9_Witness ==
  \E w \in 1 .. Len(workers) :
     /\ workers[w].pc = "backoff" /\ tasks[workers[w].task].attempt = 3
     /\ conf.jitterMs = 2
     /\ workers[w].delay > tasks[workers[w].task].slept

\* C10: no two workers hold the same task; a held task is not in the queue,
\* the queue holds no task twice, and a task enters the queue only when it is
\* created or when the worker that holds it puts it back after its send.
C10_Exclusive ==
  /\ \A t \in TaskIds : Cardinality(Holders(t)) <= 1
  /\ \A t \in TaskIds : Holders(t) # {} => ~InQueue(t)
  /\ \A i, j \in 1 .. Len(queue) : queue[i] = queue[j] => i = j

C10_Requeue ==
  \A t \in 1 .. Len(tasks') :
     ((t \in TaskIds => ~InQueue(t)) /\ (\E i \in 1 .. Len(queue') : queue'[i] = t)) =>
        \/ t \notin TaskIds
        \/ \E w \in Holders(t) : workers[w].pc = "sending"

C10_NoSharedTask == []C10_Exclusive /\ [][C10_Requeue]_vars

C10_Witness ==
  /\ Len(workers) >= 2
  /\ workers[1].pc = "sending" /\ workers[2].pc = "backoff"
  /\ workers[1].task # workers[2].task

\* the worker loops that have neither returned nor rejected
LiveLoops == {w \in 1 .. Len(workers) : workers[w].pc \notin {"exited", "crashed"}}

\* C11: after any sequence of start() and stop() calls, the worker loops
\* active while the queue runs never number more than the configured
\* concurrency (clamped to 1..25).
C11_PoolBounded ==
  running => Cardinality(LiveLoops) <= clampInt(conf.concurrency, 1, ConcurrencyCap)

\* this step handles the failure of a step of executeSequence
StepFailsNow == exec.failedAt = 0 /\ exec'.failedAt > 0

\* this step calls trip(reason): a healthy breaker becomes halted for that
\* reason, a halted one stays as it was
TripCalled(reason) ==
  IF state.halted
  THEN state' = state /\ lateTrip' = reason
  ELSE state'.halted /\ state'.reason = reason /\ firstTrip'.reason = reason

\* C12: when a step fails, a retryable step with a RetryQueue configured gets
\* exactly one task enqueued and the breaker is left alone; in every other
\* case trip('atomic_execution_failed') is called and nothing is enqueued.
C12_Handled ==
  StepFailsNow =>
    LET step == exec'.steps[exec'.failedAt] IN
    IF step.retryable /\ conf.execQueue
    THEN /\ Len(tasks') = Len(tasks) + 1
         /\ \A t \in 1 .. Len(tasks) : tasks'[t] = tasks[t]
         /\ tasks'[Len(tasks')].tradeId = exec'.tradeId
         /\ tasks'[Len(tasks')].scope = exec'.failedScope
         /\ queue' = Append(queue, Len(tasks'))
         /\ UNCHANGED breakerVars
    ELSE /\ UNCHANGED <<tasks, queue>>
         /\ TripCalled("atomic_execution_failed")

C13_Recovered ==
  (exec.pc = "recovery" /\ exec'.pc # "recovery") =>
     /\ exec'.pc = "returned" /\ ~exec'.ok
     /\ exec'.error = exec.error
     /\ exec'.failedScope = exec.failedScope
     /\ exec'.completed = exec.completed
     /\ IF exec.recovery = "throws" THEN TripCalled("recovery_failed")
        ELSE UNCHANGED breakerVars

C13_RecoveryFaultKeepsError == [][C13_Recovered]_vars

C13_Witness ==
  /\ exec.pc = "returned" /\ exec.recovery = "throws"
  /\ state.halted /\ state.reason = "recovery_failed"
  /\ exec.error = "send_error" /\ exec.failedScope = "swap"

\* C14: a step that failed because ensureHealthy() raised
\* CircuitBreakerTrippedError is never placed in the RetryQueue.
C14_BreakerErrorNotRetried ==
  (exec.failedAt > 0 /\ exec.error = "CircuitBreakerTrippedError") => tasks = <<>>

\* C15: when an exception escapes the loop of worker w,
\* trip('retry_worker_crash') is called and no sibling loop is touched: each
\* stays where it was, still polling, and claims tasks again once the breaker
\* is healthy.
C15_Crash ==
  \A w \in 1 .. Len(workers) :
     (workers[w].pc # "crashed" /\ workers'[w].pc = "crashed") =>
        /\ TripCalled("retry_worker_crash")
        /\ running' = running
        /\ Len(workers') = Len(workers)
        /\ \A v \in 1 .. Len(workers) : v # w => workers'[v] = workers[v]

C15_CrashSparesSiblings == [][C15_Crash]_vars

\* worker 1 crashed, the cool-off has passed, and worker 2 has claimed a task
\* since
C15_Witness ==
  /\ Len(workers) = 2 /\ running
  /\ workers[1].pc = "crashed"
  /\ ~state.halted
  /\ workers[2].pc = "sending"

\* C16: while the queue is stopped no worker takes a task out of the queue; a
\* loop asleep with no task returns when it wakes, and a loop that holds a
\* task still sends it and then puts it back, or ends it, by the usual rule
\* before it returns.
C16_WhileStopped ==
  (~running /\ ~running') =>
     /\ \A t \in TaskIds : InQueue(t) => \E i \in 1 .. Len(queue') : queue'[i] = t
     /\ \A w \in 1 .. Len(workers) :
          LET t == workers[w].task IN
          workers'[w] # workers[w] =>
             \/ /\ workers[w].pc = "idle"
                /\ workers'[w].pc = "exited"
             \/ /\ workers[w].pc = "backoff"
                /\ workers'[w].pc = "sending" /\ workers'[w].task = t
                /\ tasks'[t].sends = tasks[t].sends + 1
             \/ /\ workers[w].pc = "sending"
                /\ \/ /\ workers'[w].pc = "exited"
                      /\ \/ tasks'[t].outcome = "succeeded"
                         \/ /\ tasks'[t].outcome = "exhausted"
                            /\ tasks[t].attempt >= tasks[t].maxAttempts
                         \/ /\ tasks'[t].outcome = "pending"
                            /\ tasks[t].attempt < tasks[t].maxAttempts
                            /\ queue' = Append(queue, t)
                   \/ workers'[w].pc = "crashed"

C16_StopLetsSendsFinish == [][C16_WhileStopped]_vars

C16_Witness ==
  /\ ~running /\ Len(workers) = 2 /\ queue # <<>>
  /\ workers[1].pc = "exited"
  /\ workers[2].pc = "sending" /\ tasks[workers[2].task].slept > 0

\* C17: the ledger is append-only with fresh ids: a recordFailure or
\* recordRetryAttempt call that returns has appended exactly one line, its
\* own entry, after the lines already there, which stay as they were and where
\* they were; the id of the new line differs from every earlier id; a call
\* whose append throws leaves the file as it was.
C17_Appended ==
  ledger' # ledger =>
     /\ gate'.op \in {"recordFailure", "recordRetryAttempt"}
     /\ gate'.code = "none"
     /\ ledger' = Append(ledger, gate'.out)
     /\ gate'.out.id \notin LedgerIds
     /\ gate'.out.id # Undefined

C17_FreshIds ==
  \A i, j \in 1 .. Len(ledger) : ledger[i].id = ledger[j].id => i = j

C18_LedgerFailureNonFatal == exec.pc = "threw" => exec.error # "StoreError"

\* C19: whenever CapitalSafetyValidator.validate,
\* SlippageEnforcer.assertQuoteWithinLimits or assertExecutionWithinLimits
\* fails with a SafetyCheckError, the breaker is halted afterwards.
C19_ViolationTripsBreaker ==
  (gate.op \in {"validate", "assertQuoteWithinLimits", "assertExecutionWithinLimits"}
     /\ gate.code \in {"TRADE_AMOUNT_EXCEEDS_LIMITS", "INSUFFICIENT_FREE_BALANCE",
                       "INSUFFICIENT_FEE_BALANCE", "SLIPPAGE_QUOTE_TOO_LOW",
                       "SLIPPAGE_EXCEEDED"})
    => gate.post.halted

\* a balance as reconcile counts it: a missing side is 0
Counted(balances, asset) == IF balances[asset] = Undefined THEN 0 ELSE balances[asset]

\* C20: reconcile fails exactly when some asset of the union of the expected
\* and actual keys has |expected - actual| > tolerance[asset] (default 0); it
\* then raises BALANCE_RECONCILIATION_MISMATCH listing every such asset and
\* calls trip('balance_reconciliation_mismatch'); otherwise it returns and
\* leaves the breaker as it was.
C20_ReconcileExact ==
  gate.op = "reconcile" =>
    LET expected == gate.in.expected
        actual == gate.in.actual
        tolerance == gate.in.tolerance
        union == {a \in Assets : expected[a] # Undefined \/ actual[a] # Undefined}
        off(a) == IF Counted(expected, a) >= Counted(actual, a)
                  THEN Counted(expected, a) - Counted(actual, a)
                  ELSE Counted(actual, a) - Counted(expected, a)
        bad == {a \in union : off(a) > Counted(tolerance, a)}
    IN
    IF bad # {}
    THEN /\ gate.code = "BALANCE_RECONCILIATION_MISMATCH"
         /\ gate.out = bad
         /\ gate.post.halted
         /\ IF gate.pre.halted THEN gate.post = gate.pre
            ELSE gate.post.reason = "balance_reconciliation_mismatch"
    ELSE /\ gate.code = "none"
         /\ gate.out = {}
         /\ gate.post = gate.pre

\* expected 100, actual 97, tolerance 2: diff 3 fails and trips
C20_Witness ==
  /\ gate.op = "reconcile"
  /\ gate.in.expected["ETH"] = 100 /\ gate.in.actual["ETH"] = 97
  /\ gate.in.tolerance["ETH"] = 2
  /\ gate.code = "BALANCE_RECONCILIATION_MISMATCH" /\ gate.out = {"ETH"}
  /\ ~gate.pre.halted
  /\ state.halted /\ state.reason = "balance_reconciliation_mismatch"

\* the free balance and the two limits of a validate call, read off its input
FreeBalance(in) ==
  LET bal == IF in.balances["IN"] = Undefined THEN 0 ELSE in.balances["IN"]
      reserve == IF in.cfg.minReserve["IN"] = Undefined THEN 0
                 ELSE in.cfg.minReserve["IN"]
  IN Max(0, bal - reserve)

AbsoluteCap(in) ==
  IF in.cfg.maxTradeAmount = Undefined THEN FreeBalance(in)
  ELSE in.cfg.maxTradeAmount

WellFormedTrade(in) == in.trade.present /\ in.trade.assetIn # Undefined

SpecMinOut(in) ==
  LET bps == IF in.maxSlippageBps = Undefined THEN DefaultMaxSlippageBps
             ELSE in.maxSlippageBps
  IN (in.expectedAmountOut * (BpsScale - bps)) \div BpsScale

\* C22: computeMinOut returns minOut = floor(expectedAmountOut * (10000 -
\* maxSlippageBps) / 10000); assertExecutionWithinLimits on the same expected
\* amount and threshold passes for actualAmountOut = minOut and fails with
\* SLIPPAGE_EXCEEDED for actualAmountOut = minOut - 1.
C22_RoundTrip ==
  /\ [](gate.op = "computeMinOut" => gate.out.minOut = SpecMinOut(gate.in))
  /\ [][(gate.op = "computeMinOut" /\ gate'.op = "assertExecutionWithinLimits"
           /\ gate'.in.expectedAmountOut = gate.in.expectedAmountOut
           /\ gate'.in.maxSlippageBps = gate.in.maxSlippageBps)
          => /\ gate'.in.actualAmountOut = gate.out.minOut => gate'.code = "none"
             /\ gate'.in.actualAmountOut = gate.out.minOut - 1
                  => gate'.code = "SLIPPAGE_EXCEEDED"]_vars

\* expected 0 gives minOut 0, and an actual amount of -1 has been refused
C22_Witness ==
  /\ gate.op = "assertExecutionWithinLimits"
  /\ gate.in.expectedAmountOut = 0 /\ gate.in.actualAmountOut = 0 - 1
  /\ gate.code = "SLIPPAGE_EXCEEDED"

\* C23: assertWithinCap fails, with code FEE_TOO_HIGH and a trip('fee_too_high')
\* of the breaker, exactly when the effective cap (the per-call maxFee when one
\* is given, the configured one otherwise) is not null and estimatedFee > cap;
\* otherwise, and always with a null cap, it returns and the breaker is as it
\* was.
C23_FeeCapExact ==
  gate.op = "assertWithinCap" =>
    LET cap == IF gate.in.maxFee # Undefined THEN gate.in.maxFee ELSE gate.in.configured
        fee == IF gate.in.estimatedFee = Undefined THEN 0 ELSE gate.in.estimatedFee
    IN
    IF cap # Undefined /\ fee > cap
    THEN /\ gate.code = "FEE_TOO_HIGH"
         /\ gate.post.halted
         /\ IF gate.pre.halted THEN gate.post = gate.pre
            ELSE gate.post.reason = "fee_too_high"
    ELSE /\ gate.code = "none"
         /\ gate.post = gate.pre

\* configured cap 100, per-call maxFee 50, fee 51: refused under the per-call
\* cap, and the healthy breaker is tripped
C23_Witness ==
  /\ gate.op = "assertWithinCap"
  /\ gate.in.configured = 100 /\ gate.in.maxFee = 50 /\ gate.in.estimatedFee = 51
  /\ gate.code = "FEE_TOO_HIGH"
  /\ ~gate.pre.halted
  /\ state.halted /\ state.reason = "fee_too_high"

RECURSIVE FeeEvents(_)
FeeEvents(n) == IF n = 0 THEN <<>> ELSE <<"estimateFee", "assertWithinCap">> \o FeeEvents(n - 1)

\* the gates of a preTradeCheck call in the order the spec gives: breaker
\* health, wallet snapshot, balance reconciliation, fee estimation and cap
\* assertion per request, slippage min-out and quote validation, capital safety
GatesInOrder(call) ==
  <<"ensureHealthy">>
    \o (IF call.walletMonitor THEN <<"walletMonitor.getBalances">> ELSE <<>>)
    \o (IF call.reconciler /\ call.expected THEN <<"reconciler.getBalances">> ELSE <<>>)
    \o (IF call.feeManager THEN FeeEvents(call.n) ELSE <<>>)
    \o (IF call.slippageEnforcer /\ call.trade.expectedAmountOut # Undefined
        THEN <<"computeMinOut">> ELSE <<>>)
    \o (IF call.slippageEnforcer /\ call.trade.expectedAmountOut # Undefined
           /\ call.trade.quotedMinOut # Undefined
        THEN <<"assertQuoteWithinLimits">> ELSE <<>>)
    \o (IF call.validator THEN <<"validate">> ELSE <<>>)

IsPrefix(s, t) == Len(s) <= Len(t) /\ \A k \in 1 .. Len(s) : s[k] = t[k]

\* the errors each gate raises
GateErrors(by) ==
  CASE by = "ensureHealthy" -> {"CircuitBreakerTrippedError"}
    [] by = "walletMonitor.getBalances" -> {"ProviderError", "WALLET_BALANCE_VIOLATION"}
    [] by = "reconciler.getBalances" -> {"ProviderError", "BALANCE_RECONCILIATION_MISMATCH"}
    [] by = "estimateFee" -> {"ProviderError"}
    [] by = "assertWithinCap" -> {"FEE_TOO_HIGH"}
    [] by = "assertQuoteWithinLimits" -> {"SLIPPAGE_QUOTE_TOO_LOW"}
    [] by = "validate" -> {"INVALID_TRADE_AMOUNT", "MISSING_ASSET_IN",
                           "TRADE_AMOUNT_EXCEEDS_LIMITS", "INSUFFICIENT_FREE_BALANCE",
                           "INSUFFICIENT_FEE_BALANCE"}
    [] OTHER -> {}

C24_Ordered ==
  (risk.pc # "idle" /\ risk.call.trade.present) =>
     /\ IsPrefix(risk.trace, GatesInOrder(risk.call))
     /\ risk.pc = "returned" => risk.trace = GatesInOrder(risk.call)
     /\ risk.pc = "threw" =>
          /\ risk.trace # <<>>
          /\ risk.failed = risk.trace[Len(risk.trace)]
          /\ risk.error \in GateErrors(risk.failed)
     /\ risk.haltedAtCall =>
          /\ risk.pc = "threw"
          /\ risk.error = "CircuitBreakerTrippedError"
          /\ risk.trace = <<"ensureHealthy">>

\* C24: preTradeCheck runs its gates in the order breaker health, wallet
\* snapshot, balance reconciliation, fee estimation and cap assertion per
\* request, slippage min-out and quote validation, capital safety; the first
\* gate that fails makes the call fail with that gate's error, and nothing is
\* run after it; with a halted breaker no provider is called.
C24_GatesInOrder ==
  /\ []C24_Ordered
  /\ [][risk.pc = "threw" => risk' = risk]_vars

\* two requests: the first fee passed its cap, the second did not; the call
\* failed with FEE_TOO_HIGH after a wallet snapshot and a reconciliation, and
\* neither the slippage gate nor the capital gate was reached
C24_Witness ==
  /\ risk.pc = "threw" /\ risk.error = "FEE_TOO_HIGH"
  /\ risk.trace = <<"ensureHealthy", "walletMonitor.getBalances",
                    "reconciler.getBalances", "estimateFee", "assertWithinCap",
                    "estimateFee", "assertWithinCap">>
  /\ risk.call.validator /\ risk.call.slippageEnforcer
  /\ risk.estimatedFeeTotal = 50

\* a recordLoop call has just recorded its trade; pm'.last.cycle is the cycle
\* right after the trade went in
TradeRecorded ==
  /\ pm'.calls = pm.calls + 1
  /\ pm'.last.op = "recordLoop"
  /\ pm'.threw = "none"

\* C25: a recorded trade that brings the cycle's realizedPnl to or above
\* startingCapital * profitTargetPercent closes that cycle with closeReason
\* 'profit-target' and appends it to the history, and a new active cycle
\* starts with startingCapital = previous startingCapital + reinvestedAmount
\* (the profit minus the withdrawn share) and realizedPnl 0; a trade that
\* leaves realizedPnl below the target closes nothing.
C25_ProfitTarget ==
  [][TradeRecorded =>
       LET c == pm'.last.cycle
           n == Len(pm'.history)
           profit == c.realizedPnl
           withdrawn == (profit * pm.withdrawPercentOfProfit) \div Quarters
       IN
       IF c.realizedPnl * Quarters >= c.startingCapital * pm.profitTargetPercent
       THEN /\ n > 0
            /\ pm'.history[n].id = c.id
            /\ pm'.history[n].closed
            /\ pm'.history[n].closeReason = "profit-target"
            /\ pm'.history[n].realizedPnl = profit
            /\ pm'.history[n].reinvestedAmount = profit - withdrawn
            /\ pm'.activeCycle.id # c.id
            /\ ~pm'.activeCycle.closed
            /\ pm'.activeCycle.startingCapital = c.startingCapital + (profit - withdrawn)
            /\ pm'.activeCycle.realizedPnl = 0
       ELSE /\ pm'.activeCycle = c
            /\ ~c.closed
            /\ \A k \in 1 .. n : pm'.history[k].id # c.id]_vars

\* a first cycle of capital 8 closed at its target with half the profit of 4
\* withdrawn, and the next cycle runs on 10
C25_Witness ==
  /\ pm.calls > 0
  /\ pm.last.op = "recordLoop"
  /\ Len(pm.history) = 1
  /\ pm.history[1].closeReason = "profit-target"
  /\ pm.history[1].startingCapital = 8 /\ pm.history[1].realizedPnl = 4
  /\ pm.history[1].withdrawnAmount = 2
  /\ pm.activeCycle.startingCapital = 10 /\ pm.activeCycle.realizedPnl = 0

\* C26: for any time t at or after the active cycle's start + duration,
\* evaluate(t), and a recordLoop stamped t before it records its trade, closes
\* the active cycle with closeReason 'duration', appends it to the history and
\* starts a new cycle beginning at t; for t before the expiry evaluate(t)
\* closes nothing.
C26_DurationEnforced ==
  [][(pm'.calls = pm.calls + 1 /\ ~pm.activeCycle.closed) =>
       LET t == pm'.last.at
           old == pm.activeCycle
           n == Len(pm.history)
       IN
       IF t >= old.startTimeMs + old.durationMs
       THEN /\ Len(pm'.history) > n
            /\ pm'.history[n + 1].id = old.id
            /\ pm'.history[n + 1].closeReason = "duration"
            /\ pm'.history[n + 1].endTimeMs = t
            /\ \/ /\ pm'.activeCycle.id = old.id + 1
                  /\ pm'.activeCycle.startTimeMs = t
                  /\ ~pm'.activeCycle.closed
               \/ /\ Len(pm'.history) > n + 1
                  /\ pm'.history[n + 2].id = old.id + 1
                  /\ pm'.history[n + 2].startTimeMs = t
       ELSE pm'.last.op = "evaluate" =>
              /\ pm'.history = pm.history
              /\ pm'.activeCycle = pm.activeCycle]_vars

RECURSIVE SumPnl(_)
SumPnl(trades) ==
  IF trades = <<>> THEN 0 ELSE trades[1].pnl + SumPnl(Tail(trades))

\* C27: as long as recordLoop calls do not close the cycle, the active
\* cycle's currentCapital is its startingCapital plus the sum of the pnl
\* values recorded in it, which is startingCapital + realizedPnl, and such a
\* call leaves the history as it was.
C27_Compounds ==
  /\ [](~pm.activeCycle.closed =>
          /\ pm.activeCycle.currentCapital
               = pm.activeCycle.startingCapital + SumPnl(pm.activeCycle.trades)
          /\ pm.activeCycle.currentCapital
               = pm.activeCycle.startingCapital + pm.activeCycle.realizedPnl
          /\ Len(pm.activeCycle.trades) = pm.activeCycle.tradeCount)
  /\ [][(pm'.calls = pm.calls + 1 /\ pm'.last.op = "recordLoop" /\ pm'.threw = "none"
           /\ pm'.activeCycle.id = pm.activeCycle.id)
          => /\ pm'.history = pm.history
             /\ pm'.activeCycle.currentCapital = pm.activeCycle.currentCapital + pm'.last.pnl
             /\ pm'.activeCycle.trades
                  = Append(pm.activeCycle.trades,
                           pm'.activeCycle.trades[Len(pm'.activeCycle.trades)])]_vars

\* capital 16 with the target at one half: a winning loop of 4 and a losing
\* one of 8 leave the cycle open on 16 + 4 - 8
C27_Witness ==
  /\ pm.history = <<>>
  /\ pm.activeCycle.startingCapital = 16
  /\ pm.activeCycle.tradeCount = 2
  /\ pm.activeCycle.trades[1].pnl = 4 /\ pm.activeCycle.trades[2].pnl = 0 - 8
  /\ pm.activeCycle.currentCapital = 12

\* this step of executeSequence calls txProvider.sendTransaction
SendsNow == exec'.sent # exec.sent

\* C28: within one executeSequence call sendTransaction for step i+1 is
\* called only when waitForReceipt for step i has returned a receipt of status
\* 'success', and never are two steps of the call in flight.
C28_Sequential ==
  /\ [](/\ exec.sent <= Len(exec.completed) + 1
        /\ exec.pc \in {"send", "receipt"} =>
             (exec.sent = exec.i /\ Len(exec.completed) = exec.i - 1))
  /\ [][SendsNow =>
          /\ exec'.sent = exec.sent + 1
          /\ exec'.pc = "send"
          /\ \/ exec.pc = "idle" /\ exec.sent = 0
             \/ /\ exec.pc = "receipt"
                /\ Len(exec'.completed) = exec.sent
                /\ exec'.completed[exec.sent].receipt = "success"
                /\ exec'.completed[exec.sent].txHash = TxHash(exec.tradeId, exec.sent)]_vars

\* the third step is with the provider, the receipts of the first two are in
C28_Witness ==
  /\ exec.pc = "send" /\ exec.sent = 3
  /\ Len(exec.completed) = 2
  /\ exec.completed[1].receipt = "success" /\ exec.completed[2].receipt = "success"

\* C29: executeSequence never calls sendTransaction for a step while the
\* breaker is halted with its cool-off not elapsed, be it halted when the call
\* is made or tripped while an earlier step's send or receipt is awaited.
C29_NoSendWhileHalted ==
  /\ []((exec.pc = "send") => ~exec.gate)
  /\ [][SendsNow => (exec'.pc = "send" /\ ~exec'.gate /\ ~HaltedIn(state'))]_vars

\* the breaker was tripped while step 1 was awaited: step 2 met
\* CircuitBreakerTrippedError and was not sent
C29_Witness ==
  /\ exec.failedAt = 2 /\ exec.error = "CircuitBreakerTrippedError"
  /\ exec.sent = 1 /\ Len(exec.completed) = 1
  /\ state.halted

\* a retryable step of the call has failed, with a RetryQueue configured
RetryableFailed(e) ==
  e.failedAt > 0 /\ e.steps[e.failedAt].retryable /\ conf.execQueue

\* C30 as the spec states it: when a retryable step fails, the call returns
\* ok = false while the step's task is still pending in the queue with
\* attempt = 0.
C30_AsClaimed ==
  [][(exec.pc # "returned" /\ exec'.pc = "returned" /\ RetryableFailed(exec'))
       => /\ ~exec'.ok
          /\ \E t \in 1 .. Len(tasks') :
               /\ tasks'[t].scope = exec'.failedScope
               /\ tasks'[t].attempt = 0
               /\ \E i \in 1 .. Len(queue') : queue'[i] = t]_vars

\* C30: executeSequence does not wait for a retry: when a retryable step fails
\* its task is enqueued with attempt = 0 at once; with no recovery callback
\* the call returns ok = false in the same turn, the task still pending, and
\* with a recovery callback it returns ok = false when the callback settles,
\* whatever the workers have done with the task meanwhile. The steps after the
\* failed one are never sent, neither by the call nor by the queue, which
\* holds the failed step only.
C30_NoWaitForRetry ==
  /\ [][(StepFailsNow /\ RetryableFailed(exec'))
          => /\ Len(tasks') = Len(tasks) + 1
             /\ tasks'[Len(tasks')].scope = exec'.failedScope
             /\ tasks'[Len(tasks')].attempt = 0
             /\ tasks'[Len(tasks')].outcome = "pending"
             /\ queue' = Append(queue, Len(tasks'))
             /\ IF exec.recovery = "none"
                THEN exec'.pc = "returned" /\ ~exec'.ok
                ELSE exec'.pc = "recovery"]_vars
  /\ [][(exec.pc = "recovery" /\ exec'.pc # "recovery")
          => (exec'.pc = "returned" /\ ~exec'.ok)]_vars
  /\ [][exec.failedAt > 0 => (exec'.sent = exec.sent /\ exec'.failedAt = exec.failedAt)]_vars
  /\ [](RetryableFailed(exec) =>
          /\ exec.sent <= exec.failedAt
          /\ Len(tasks) = 1
          /\ tasks[1].tradeId = exec.tradeId
          /\ tasks[1].scope = exec.failedScope)

\* step 1 of 3 failed and was retried with success by a worker: the call
\* has returned ok = false, steps 2 and 3 were sent by nobody
C30_Witness ==
  /\ exec.pc = "returned" /\ ~exec.ok /\ exec.n = 3 /\ exec.failedAt = 1
  /\ exec.sent = 1
  /\ RetryableFailed(exec)
  /\ Len(tasks) = 1 /\ tasks[1].outcome = "succeeded" /\ tasks[1].sends = 1

\* C33: whenever the breaker is not halted, trippedAt, reason and data are all
\* null; and every step that takes it from halted to not halted (reset() or
\* the auto-reset) leaves the constructor's state, consecutiveFailures = 0
\* included.
C33_Clean ==
  ~state.halted =>
     /\ state.trippedAt = NullTime
     /\ state.reason = NullReason
     /\ state.data = NullData

C33_ResetClears ==
  /\ (state.halted /\ ~state'.halted) => state' = InitialState
  /\ drv'.op = "reset" /\ drv' # drv => state' = InitialState

C33_CleanWhenHealthy == []C33_Clean /\ [][C33_ResetClears]_vars

\* an auto-reset after failures were counted and a trip made
C33_Witness ==
  /\ drv.op \in {"isHalted", "ensureHealthy"}
  /\ drv.pre.halted /\ drv.pre.consecutiveFailures > 0
  /\ drv.pre.reason = "r1"
  /\ ~drv.ret
  /\ state = InitialState

\* C34: a halted breaker stops being halted only in a reset() call or in an
\* isHalted() / ensureHealthy() call made with coolOffMs > 0 at or after
\* trippedAt + coolOffMs; recordSuccess, recordFailure and trip leave halted
\* as it is, and with coolOffMs <= 0 a halted breaker stays halted through
\* every call other than reset().
C34_OutOfHalted ==
  /\ (state.halted /\ ~state'.halted) =>
        \/ drv'.op = "reset"
        \/ /\ drv'.op \in {"isHalted", "ensureHealthy"}
           /\ coolOffMs > 0
           /\ now - state.trippedAt >= coolOffMs
  /\ (state.halted /\ drv' # drv /\ drv'.op \in {"recordSuccess", "recordFailure", "trip"}) =>
        state'.halted
  /\ (state.halted /\ coolOffMs <= 0 /\ drv'.op # "reset") => state'.halted

C34_OnlyResetLeavesHalted == [][C34_OutOfHalted]_vars

\* no cool-off: the breaker was found halted well after the trip, and a
\* success was recorded since without lifting the halt
C34_Witness ==
  /\ coolOffMs = 0 /\ state.halted
  /\ drv.op = "recordSuccess" /\ drv.pre.halted
  /\ drv.at > state.trippedAt + 1

\* C40: after any sequence of recordLoop and evaluate calls the active cycle
\* is open and has a positive startingCapital, the history holds exactly the
\* closed cycles in closing order, and no recordLoop is refused.
C40_UsableActiveCycle ==
  /\ ~pm.activeCycle.closed
  /\ pm.activeCycle.startingCapital > 0
  /\ pm.activeCycle.id = Len(pm.history) + 1
  /\ \A i \in 1 .. Len(pm.history) : pm.history[i].closed /\ pm.history[i].id = i
  /\ pm.last.op = "recordLoop" => pm.threw = "none"

\* C35: once provider.sendTransaction has returned a handle for a task, no
\* worker calls sendTransaction for that task again, whether or not the
\* retry-attempt entry of the successful send could be appended.
C35_SentOkAtMostOnce ==
  [][\A t \in TaskIds : tasks[t].okSends > 0 => tasks'[t].sends = tasks[t].sends]_vars

\* the places a task can be
Places(t) ==
  Cardinality({i \in 1 .. Len(queue) : queue[i] = t})
  + Cardinality(Holders(t))
  + (IF tasks[t].outcome \in {"succeeded", "exhausted"} THEN 1 ELSE 0)

\* C36: in every reachable state each enqueued task is in exactly one place:
\* once in the queue, or held by exactly one worker, or terminal (succeeded or
\* exhausted); none is duplicated and none disappears without a terminal
\* outcome, under every interleaving of workers, enqueue, stop/start, breaker
\* trips and worker crashes.
C36_TasksConserved == \A t \in TaskIds : Places(t) = 1

\* C37: for every task and every interleaving of workers, attempt <=
\* maxAttempts at all times and sendTransaction is called for the task at most
\* maxAttempts times, where maxAttempts is the requested value clamped to
\* 1..50, and 3 when none was requested.
C37_WithinBudget ==
  \A t \in TaskIds :
     /\ tasks[t].attempt <= tasks[t].maxAttempts
     /\ tasks[t].sends <= tasks[t].maxAttempts
     /\ tasks[t].sends <= tasks[t].attempt
     /\ tasks[t].maxAttempts =
          (IF tasks[t].requested = Undefined THEN 3
           ELSE IF tasks[t].requested < 1 THEN 1
           ELSE IF tasks[t].requested > 50 THEN 50
           ELSE tasks[t].requested)

\* a task asked for with 51 attempts was sent 50 times and ended exhausted,
\* while another, asked for with none, was sent once
C37_Witness ==
  /\ Len(tasks) = 2
  /\ \E t \in TaskIds :
       /\ tasks[t].requested = 51 /\ tasks[t].sends = 50
       /\ tasks[t].outcome = "exhausted"
  /\ \E t \in TaskIds :
       /\ tasks[t].requested = 0 /\ tasks[t].sends = 1

\* the lines of the ledger that are failure entries of trade `tradeId`
FailuresOf(tradeId) ==
  {i \in 1 .. Len(ledger) : ledger[i].kind = "failure" /\ ledger[i].tradeId = tradeId}

\* C31 (step): the step that handles a failed step of executeSequence appends
\* one 'failure' entry (attempt 0, the step's scope, tradeId, retryable flag,
\* maxAttempts and error) after the lines already there, and the task it
\* enqueues, if any, carries the id of that entry as failedTxId.
C31_Recorded ==
  StepFailsNow =>
    LET step == exec'.steps[exec'.failedAt]
        n == Len(ledger)
    IN
    /\ Len(ledger') = n + 1
    /\ \A i \in 1 .. n : ledger'[i] = ledger[i]
    /\ ledger'[n + 1].kind = "failure"
    /\ ledger'[n + 1].attempt = 0
    /\ ledger'[n + 1].tradeId = exec'.tradeId
    /\ ledger'[n + 1].scope = exec'.failedScope
    /\ ledger'[n + 1].retryable = step.retryable
    /\ ledger'[n + 1].maxAttempts =
         (IF step.maxAttempts = Undefined THEN 3 ELSE step.maxAttempts)
    /\ ledger'[n + 1].error = exec'.error
    /\ IF step.retryable
       THEN /\ Len(tasks') = Len(tasks) + 1
            /\ tasks'[Len(tasks')].failedTxId = ledger'[n + 1].id
            /\ UNCHANGED breakerVars
       ELSE /\ tasks' = tasks
            /\ TripCalled("atomic_execution_failed")

\* C31 (state): while the recovery runs and once the call has returned with a
\* failed step, the ledger holds exactly one failure entry of the trade.
C31_OneEntry ==
  (exec.failedAt > 0 /\ exec.pc \in {"recovery", "returned"}) =>
     Cardinality(FailuresOf(exec.tradeId)) = 1

\* C31: with a FailedTxStore configured (and its append succeeding), every
\* failed step of executeSequence has its 'failure' entry in the ledger in the
\* step that enqueues the retry or trips the breaker, before the recovery and
\* before the call returns, and the enqueued task carries that entry's id.
C31_FailureRecordedFirst == [][C31_Recorded]_vars /\ []C31_OneEntry

\* the second step of a trade failed and was queued for retry under the id of
\* its failure entry
C31_Witness ==
  /\ exec.pc = "returned" /\ exec.failedAt = 2 /\ exec.steps[2].retryable
  /\ Len(ledger) = 1 /\ ledger[1].kind = "failure" /\ ledger[1].scope = "swap"
  /\ Len(tasks) = 1 /\ tasks[1].failedTxId = ledger[1].id
  /\ ~state.halted

\* the send of worker w settles in this step
SendSettlesNow(w) ==
  /\ w <= Len(workers)
  /\ workers[w].pc = "sending"
  /\ workers'[w] # workers[w]

\* after the step, task t is neither in the queue nor held by a worker
Discarded(t) ==
  /\ \A i \in 1 .. Len(queue') : queue'[i] # t
  /\ \A v \in 1 .. Len(workers') : workers'[v].task # t

\* C32 (step): the step in which the send of worker w settles appends one
\* retry_attempt entry for the task's failedTxId, tradeId, scope and attempt.
\* After a successful send the entry carries the transaction hash and the task
\* is discarded as succeeded. After a failed send the entry carries the error;
\* with attempt < maxAttempts the task is pushed to the tail of the queue (from
\* where the same pass of the loop may claim the head again), with
\* attempt >= maxAttempts it is discarded as exhausted and trip('retry_exhausted')
\* is called.
C32_Outcome(w) ==
  SendSettlesNow(w) =>
    LET t == workers[w].task
        task == tasks[t]
        n == Len(ledger)
        pushed == Append(queue, t)
    IN
    /\ Len(ledger') = n + 1
    /\ \A i \in 1 .. n : ledger'[i] = ledger[i]
    /\ ledger'[n + 1].kind = "retry_attempt"
    /\ ledger'[n + 1].failedTxId = task.failedTxId
    /\ ledger'[n + 1].tradeId = task.tradeId
    /\ ledger'[n + 1].scope = task.scope
    /\ ledger'[n + 1].attempt = task.attempt
    /\ IF tasks'[t].okSends = task.okSends + 1
       THEN /\ ledger'[n + 1].txHash = TxHash(task.tradeId, task.attempt)
            /\ ledger'[n + 1].error = NoError
            /\ tasks'[t].outcome = "succeeded"
            /\ tasks'[t].attempt = task.attempt
            /\ Discarded(t)
            /\ UNCHANGED <<firstTrip, lateTrip>>
       ELSE /\ ledger'[n + 1].txHash = Undefined
            /\ ledger'[n + 1].error # NoError
            /\ IF task.attempt < task.maxAttempts
               THEN /\ tasks'[t].outcome = "pending"
                    /\ UNCHANGED <<firstTrip, lateTrip>>
                    /\ \/ /\ queue' = pushed
                          /\ workers'[w].task = 0
                          /\ tasks'[t].attempt = task.attempt
                       \/ /\ queue' = Tail(pushed)
                          /\ workers'[w].task = Head(pushed)
                          /\ tasks'[Head(pushed)].attempt =
                               tasks[Head(pushed)].attempt + 1
                          /\ Head(pushed) # t => tasks'[t].attempt = task.attempt
               ELSE /\ tasks'[t].outcome = "exhausted"
                    /\ tasks'[t].attempt = task.attempt
                    /\ Discarded(t)
                    /\ TripCalled("retry_exhausted")

\* C32 (state): a task that reached an outcome is in the queue no more and no
\* worker holds it; a task without one has not been sent successfully.
C32_TerminalIsFinal ==
  \A t \in TaskIds :
    /\ tasks[t].outcome \in {"succeeded", "exhausted"} =>
         ~InQueue(t) /\ Holders(t) = {}
    /\ tasks[t].outcome = "succeeded" <=> tasks[t].okSends = 1
    /\ tasks[t].okSends <= 1

\* C32: each retry attempt ends in exactly one outcome step (with the
\* ledger's append succeeding): success files the hash and discards the task;
\* failure files the error and either requeues the task at the tail
\* (attempt < maxAttempts) or discards it with a retry_exhausted trip.
C32_OneOutcomePerAttempt ==
  /\ [][\A w \in 1 .. MaxLoops : C32_Outcome(w)]_vars
  /\ []C32_TerminalIsFinal

\* a task was requeued after a failed send and then sent successfully on its
\* second attempt
C32_Witness ==
  /\ Len(ledger) = MaxLedger
  /\ \E i, j \in 1 .. Len(ledger) :
       /\ i < j
       /\ ledger[i].kind = "retry_attempt" /\ ledger[i].error # NoError
       /\ ledger[j].kind = "retry_attempt" /\ ledger[j].error = NoError
       /\ ledger[j].failedTxId = ledger[i].failedTxId
       /\ ledger[j].attempt = 2
  /\ \E t \in TaskIds : tasks[t].outcome = "succeeded" /\ tasks[t].attempt = 2

\* the lines before line i that are retry attempts filed under the same
\* failedTxId
EarlierAttempts(i) ==
  {k \in 1 .. (i - 1) : /\ ledger[k].kind = "retry_attempt"
                        /\ ledger[k].failedTxId = ledger[i].failedTxId}

\* C38: with the executor and the queue on one FailedTxStore, every
\* retry_attempt line names, as failedTxId, the id of a 'failure' line appended
\* before it for the same tradeId and scope, and the attempts filed under one
\* failedTxId are numbered 1, 2, ... in the order of their lines.
C38_Correlated ==
  \A i \in 1 .. Len(ledger) :
    ledger[i].kind = "retry_attempt" =>
      /\ \E j \in 1 .. (i - 1) :
           /\ ledger[j].kind = "failure"
           /\ ledger[j].id = ledger[i].failedTxId
           /\ ledger[j].tradeId = ledger[i].tradeId
           /\ ledger[j].scope = ledger[i].scope
      /\ ledger[i].attempt = Cardinality(EarlierAttempts(i)) + 1

\* two trades failed one after the other, and the retry of the second was
\* filed while the retry of the first was still being sent
C38_Witness ==
  /\ Len(ledger) = 3
  /\ ledger[1].kind = "failure" /\ ledger[1].tradeId = 1
  /\ ledger[2].kind = "failure" /\ ledger[2].tradeId = 2
  /\ ledger[3].kind = "retry_attempt" /\ ledger[3].failedTxId = ledger[2].id
  /\ ledger[3].attempt = 1
  /\ \E w \in 1 .. Len(workers) :
       /\ workers[w].pc = "sending"
       /\ tasks[workers[w].task].failedTxId = ledger[1].id

Terminal(t) == tasks[t].outcome \in {"succeeded", "exhausted"}

\* C39: with the queue started and never stopped, no worker crash, every send
\* settling and a halted breaker always un-halted again (reset or cool-off),
\* every task, once enqueued, eventually succeeds or is exhausted under weak
\* fairness of the workers, also while other tasks fail and are requeued.
C39_NoTaskWaitsForever ==
  \A t \in 1 .. MaxTasks :
    (Len(tasks) >= t) ~> (Len(tasks) >= t /\ Terminal(t))

\* the first task failed, was requeued and in the end exhausted its budget,
\* and the task enqueued behind it got through meanwhile
C39_Witness ==
  /\ Len(tasks) = 2
  /\ tasks[1].outcome = "exhausted" /\ tasks[1].attempt = 2
  /\ tasks[2].outcome = "succeeded" /\ tasks[2].attempt = 1
  /\ ~state.halted

====
